---- MODULE Spec2Model ----
(***************************************************************************)
(* CloudScope storage layer: the asset and relationship repositories of    *)
(* src/src/adapters/storage (file, SQLite, Memgraph with file fallback)    *)
(* behind the contract of src/src/ports/repository.py.                     *)
(*                                                                         *)
(* One repository instance is modelled per behaviour: Init picks the       *)
(* backend and the repository kind, every contract call is one action, and *)
(* `last` records the most recent call and the exception it raised.        *)
(***************************************************************************)
EXTENDS Integers, Sequences, FiniteSets, TLC

VARIABLES backend, kind, has_fallback, available, fileRepo, relRepo, sqlDb,
          graphDb, raised, last, threads, lock, calls, disk, writers,
          reader, reachable, ctor_reachable, conn_failed, foreign_keys, conn,
          subject

vars == <<backend, kind, has_fallback, available, fileRepo, relRepo, sqlDb,
          graphDb, raised, last, threads, lock, calls, disk, writers,
          reader, reachable, ctor_reachable, conn_failed, foreign_keys,
          conn, subject>>

\* The directory as _write_json and _read_json see it.
writeVars == <<disk, writers, reader>>
\* The graph database endpoint, now and when the repository was constructed.
endpointVars == <<reachable, ctor_reachable>>
\* The pragmas the SQLite repository was constructed with, and the
\* connection of the operation that is being executed statement by statement.
sqliteVars == <<foreign_keys, conn>>

(***************************************************************************)
(* Bounds and input domains                                                *)
(***************************************************************************)
MaxBatch == 2
MaxEdges == 2
\* Calls the threads of one process make on a shared repository instance.
MaxCalls == 3

AssetIds == {"a1", "a2"}
RelationshipIds == {"r1", "r2"}
AssetTypes == {"compute", "storage"}
Providers == {"aws", "gcp"}
Statuses == {"active", "inactive"}
RiskScores == {10, 80}
RelationshipTypes == {"depends_on", "uses"}

EmptyMap == [k \in {} |-> "none"]
None == [none |-> TRUE]

Range(f) == {f[x] : x \in DOMAIN f}

\* Sequences over S of length 0..n.
SeqsUpTo(S, n) == UNION {[1..m -> S] : m \in 0..n}

(***************************************************************************)
(* Python values held in properties / metadata, and their JSON encoding    *)
(***************************************************************************)
\* str, list and tuple are JSON-representable; datetime is not.
PyValues ==
    { [py |-> "str", v |-> "x"],
      [py |-> "tuple", v |-> "x"],
      [py |-> "datetime", v |-> "x"] }

TypeError == [js |-> "TypeError"]

\* json.dump(..., default=str) / json.dumps(...) of one value: a tuple is
\* written as an array, a str as a string, and a datetime goes through
\* `default` (str) when one is given and raises TypeError otherwise.
JsonDumpValue(val, use_default) ==
    CASE val.py = "str" -> [js |-> "string", v |-> val.v]
      [] val.py \in {"list", "tuple"} -> [js |-> "array", v |-> val.v]
      [] OTHER -> IF use_default THEN [js |-> "string", v |-> val.v]
                                 ELSE TypeError

\* json.load of one value: arrays come back as lists, strings as str.
JsonLoadValue(j) ==
    IF j.js = "array" THEN [py |-> "list", v |-> j.v]
                      ELSE [py |-> "str", v |-> j.v]

JsonDumpMap(m, use_default) ==
    IF \E k \in DOMAIN m : JsonDumpValue(m[k], use_default) = TypeError
    THEN TypeError
    ELSE [k \in DOMAIN m |-> JsonDumpValue(m[k], use_default)]

JsonLoadMap(j) == [k \in DOMAIN j |-> JsonLoadValue(j[k])]

\* json.dumps / json.loads of a Dict[str, str] such as Asset.tags.
JsonDumpTags(tags) == [k \in DOMAIN tags |-> [js |-> "string", v |-> tags[k]]]
JsonLoadTags(j) == [k \in DOMAIN j |-> j[k].v]

\* datetime.isoformat() and datetime.fromisoformat().
isoformat(d) == [iso |-> d.dt]
fromisoformat(s) == [dt |-> s.iso]

T0 == [dt |-> "2024-01-01T00:00:00"]
utcnow == [dt |-> "2024-06-01T00:00:00"]

(***************************************************************************)
(* Asset (src/src/domain/models/asset.py)                                  *)
(***************************************************************************)
TagMaps ==
    { EmptyMap,
      [k \in {"e"} |-> "p=q"],
      [k \in {"e=p"} |-> "q"],
      [k \in {"e", "e=p"} |-> IF k = "e" THEN "p=q" ELSE "q"] }

PropertyMaps == {EmptyMap} \cup {[k \in {"k"} |-> v] : v \in PyValues}

BaseAsset(id) ==
    [ asset_id |-> id, asset_type |-> "compute", provider |-> "aws",
      name |-> "n", properties |-> EmptyMap, tags |-> EmptyMap,
      metadata |-> EmptyMap, created_at |-> T0, updated_at |-> T0,
      discovered_at |-> T0, status |-> "active", health |-> "healthy",
      compliance_status |-> "unknown", risk_score |-> 10,
      estimated_cost |-> 0 ]

\* The valid assets the callers pass in.  For the first id the indexed
\* dimensions, status / risk_score and properties vary on a plain asset;
\* the other ids come plain, tagged, or with a datetime property.
AssetsOf(id) ==
    IF id = "a1"
    THEN {[BaseAsset(id) EXCEPT !.tags = g] : g \in TagMaps}
         \cup {[BaseAsset(id) EXCEPT !.asset_type = "storage"],
               [BaseAsset(id) EXCEPT !.provider = "gcp"],
               [BaseAsset(id) EXCEPT !.status = "inactive", !.risk_score = 80]}
         \cup {[BaseAsset(id) EXCEPT !.properties = pm] : pm \in PropertyMaps}
    ELSE {BaseAsset(id),
          [BaseAsset(id) EXCEPT !.tags = [k \in {"e"} |-> "p=q"]],
          [BaseAsset(id) EXCEPT !.properties =
              [k \in {"k"} |-> [py |-> "datetime", v |-> "x"]]]}

Assets == UNION {AssetsOf(id) : id \in AssetIds}

\* Assets used as batch items: plain, or with a datetime property.
BatchAssets ==
    { BaseAsset("a1"), BaseAsset("a2"),
      [BaseAsset("a1") EXCEPT !.properties =
          [k \in {"k"} |-> [py |-> "datetime", v |-> "x"]]] }

validate(a) ==
    /\ a.asset_type \in {"compute", "storage", "network", "database",
                         "container", "function", "identity", "security"}
    /\ a.provider \in {"aws", "azure", "gcp", "kubernetes", "onprem",
                       "hybrid", "custom"}
    /\ a.status \in {"active", "inactive", "terminated", "unknown"}
    /\ a.risk_score >= 0 /\ a.risk_score <= 100

\* Asset.to_dict: the dictionary handed to the serializer.
to_dict(a) ==
    [ asset_id |-> a.asset_id, asset_type |-> a.asset_type,
      provider |-> a.provider, name |-> a.name,
      properties |-> a.properties, tags |-> a.tags,
      metadata |-> a.metadata,
      created_at |-> isoformat(a.created_at),
      updated_at |-> isoformat(a.updated_at),
      discovered_at |-> isoformat(a.discovered_at),
      status |-> a.status, health |-> a.health,
      compliance_status |-> a.compliance_status,
      risk_score |-> a.risk_score, estimated_cost |-> a.estimated_cost,
      relationship_count |-> 0 ]

\* Asset.from_dict: timestamps parsed, relationship_count dropped.
from_dict(d) ==
    [ asset_id |-> d.asset_id, asset_type |-> d.asset_type,
      provider |-> d.provider, name |-> d.name,
      properties |-> d.properties, tags |-> d.tags,
      metadata |-> d.metadata,
      created_at |-> fromisoformat(d.created_at),
      updated_at |-> fromisoformat(d.updated_at),
      discovered_at |-> fromisoformat(d.discovered_at),
      status |-> d.status, health |-> d.health,
      compliance_status |-> d.compliance_status,
      risk_score |-> d.risk_score, estimated_cost |-> d.estimated_cost ]

(***************************************************************************)
(* FileBasedAssetRepository (src/src/adapters/storage/file_repository.py)  *)
(* A repository is [files, by_type, by_provider, by_tags]: files maps the  *)
(* ids that have an entity file to the file's JSON content, each index     *)
(* maps a key to its list of ids.                                          *)
(***************************************************************************)
EmptyFileRepo ==
    [ files |-> EmptyMap, by_type |-> EmptyMap, by_provider |-> EmptyMap,
      by_tags |-> EmptyMap ]

\* _write_json followed by _read_json of an entity dictionary:
\* json.dump(data, default=str), then json.load.
FileJson(d) ==
    [d EXCEPT !.properties = JsonLoadMap(JsonDumpMap(d.properties, TRUE)),
              !.tags = JsonLoadTags(JsonDumpTags(d.tags)),
              !.metadata = JsonLoadMap(JsonDumpMap(d.metadata, TRUE))]

\* f"{tag_key}={tag_value}"
tag_str(tag_key, tag_value) == tag_key \o "=" \o tag_value

\* list.remove(x): the list without the first occurrence of x.
RECURSIVE ListRemove(_, _)
ListRemove(l, x) ==
    IF l = <<>> THEN <<>>
    ELSE IF Head(l) = x THEN Tail(l)
    ELSE <<Head(l)>> \o ListRemove(Tail(l), x)

DropKey(idx, key) == [k \in DOMAIN idx \ {key} |-> idx[k]]

\* A bug to compare with: the remove branch without `del idx[key]`.
IndexRemoveKeepsKey(idx, key, id) ==
    IF key \notin DOMAIN idx THEN [ok |-> TRUE, idx |-> idx]
    ELSE IF id \notin Range(idx[key]) THEN [ok |-> FALSE, idx |-> idx]
    ELSE [ok |-> TRUE, idx |-> [idx EXCEPT ![key] = ListRemove(idx[key], id)]]

\* One index dictionary after the `remove` branch of _update_index for one
\* key; ok is FALSE when list.remove raises ValueError.
IndexRemove(idx, key, id) ==
    IF key \notin DOMAIN idx THEN [ok |-> TRUE, idx |-> idx]
    ELSE IF id \notin Range(idx[key]) THEN [ok |-> FALSE, idx |-> idx]
    ELSE LET l == ListRemove(idx[key], id) IN
         [ok |-> TRUE,
          idx |-> IF l = <<>> THEN DropKey(idx, key)
                              ELSE [idx EXCEPT ![key] = l]]

\* One index dictionary after the add branch of _update_index for one key.
IndexAdd(idx, key, id) ==
    IF key \notin DOMAIN idx
    THEN [ok |-> TRUE,
          idx |-> [k \in DOMAIN idx \cup {key} |->
                      IF k = key THEN <<id>> ELSE idx[k]]]
    ELSE IF id \in Range(idx[key]) THEN [ok |-> TRUE, idx |-> idx]
    ELSE [ok |-> TRUE, idx |-> [idx EXCEPT ![key] = Append(@, id)]]

IndexStep(idx, key, id, remove) ==
    IF remove THEN IndexRemove(idx, key, id) ELSE IndexAdd(idx, key, id)

\* The tag loop of _update_index over asset.tags.items().
RECURSIVE TagLoop(_, _, _, _, _)
TagLoop(idx, tags, keys, id, remove) ==
    IF keys = {} THEN [ok |-> TRUE, idx |-> idx]
    ELSE LET k == CHOOSE x \in keys : TRUE
             Rest(r) == IF r.ok THEN TagLoop(r.idx, tags, keys \ {k}, id, remove)
                                ELSE r
         IN Rest(IndexStep(idx, tag_str(k, tags[k]), id, remove))

\* _update_index(asset, remove): the three index files are rewritten one
\* after the other; an exception leaves the files written so far.
FileUpdateIndex(repo, asset, remove) ==
    LET Tags(r2, g) ==
            IF ~g.ok THEN [repo |-> r2, exc |-> "ValueError"]
            ELSE [repo |-> [r2 EXCEPT !.by_tags = g.idx], exc |-> "none"]
        Provider(r1, p) ==
            IF ~p.ok THEN [repo |-> r1, exc |-> "ValueError"]
            ELSE Tags([r1 EXCEPT !.by_provider = p.idx],
                      TagLoop(r1.by_tags, asset.tags, DOMAIN asset.tags,
                              asset.asset_id, remove))
        Type(t) ==
            IF ~t.ok THEN [repo |-> repo, exc |-> "ValueError"]
            ELSE Provider([repo EXCEPT !.by_type = t.idx],
                          IndexStep(repo.by_provider, asset.provider,
                                    asset.asset_id, remove))
    IN Type(IndexStep(repo.by_type, asset.asset_type, asset.asset_id, remove))

PutFile(repo, id, d) ==
    [repo EXCEPT !.files = [k \in DOMAIN repo.files \cup {id} |->
                               IF k = id THEN FileJson(d) ELSE repo.files[k]]]

Unlink(repo, id) == [repo EXCEPT !.files = DropKey(repo.files, id)]

\* How save / update / delete wrap everything raised in their try block.
WrapRepositoryError(exc) == IF exc = "none" THEN "none" ELSE "RepositoryError"

\* save(asset)
FileSave(repo, asset) ==
    IF asset.asset_id \in DOMAIN repo.files
    THEN [repo |-> repo, exc |-> WrapRepositoryError("DuplicateAssetError"),
          ret |-> None]
    ELSE LET Written(u) ==
                 [repo |-> u.repo, exc |-> WrapRepositoryError(u.exc),
                  ret |-> IF u.exc = "none" THEN asset ELSE None]
         IN Written(FileUpdateIndex(
                        PutFile(repo, asset.asset_id, to_dict(asset)),
                        asset, FALSE))

\* find_by_id(asset_id)
FileFindById(repo, asset_id) ==
    IF asset_id \notin DOMAIN repo.files THEN None
    ELSE from_dict(repo.files[asset_id])

\* exists(asset_id)
FileExists(repo, asset_id) == asset_id \in DOMAIN repo.files

\* update(asset)
FileUpdate(repo, asset) ==
    IF asset.asset_id \notin DOMAIN repo.files
    THEN [repo |-> repo, exc |-> WrapRepositoryError("AssetNotFoundError"),
          ret |-> None]
    ELSE LET old_asset == from_dict(repo.files[asset.asset_id])
             new == [asset EXCEPT !.updated_at = utcnow]
             written == PutFile(repo, asset.asset_id, to_dict(new))
         IN IF \/ old_asset.asset_type # new.asset_type
               \/ old_asset.provider # new.provider
               \/ old_asset.tags # new.tags
            THEN LET Added(ad) ==
                         [repo |-> ad.repo,
                          exc |-> WrapRepositoryError(ad.exc),
                          ret |-> IF ad.exc = "none" THEN new ELSE None]
                     Removed(rm) ==
                         IF rm.exc # "none"
                         THEN [repo |-> rm.repo,
                               exc |-> WrapRepositoryError(rm.exc),
                               ret |-> None]
                         ELSE Added(FileUpdateIndex(rm.repo, new, FALSE))
                 IN Removed(FileUpdateIndex(written, old_asset, TRUE))
            ELSE [repo |-> written, exc |-> "none", ret |-> new]

\* delete(asset_id)
FileDelete(repo, asset_id) ==
    IF asset_id \notin DOMAIN repo.files
    THEN [repo |-> repo, exc |-> "none", ret |-> FALSE]
    ELSE LET Unindexed(u) ==
                 [repo |-> u.repo, exc |-> WrapRepositoryError(u.exc),
                  ret |-> (u.exc = "none")]
         IN Unindexed(FileUpdateIndex(Unlink(repo, asset_id),
                                      from_dict(repo.files[asset_id]), TRUE))

\* One iteration of the save_batch loop: `except DuplicateAssetError` skips
\* the item, any other exception is appended to errors.
RECURSIVE FileSaveLoop(_, _, _, _)
FileSaveLoop(repo, assets, saved, errors) ==
    IF assets = <<>> THEN [repo |-> repo, saved |-> saved, errors |-> errors]
    ELSE LET Item(r) ==
                 FileSaveLoop(r.repo, Tail(assets),
                              IF r.exc = "none"
                              THEN Append(saved, Head(assets).asset_id)
                              ELSE saved,
                              IF r.exc \in {"none", "DuplicateAssetError"}
                              THEN errors ELSE errors + 1)
         IN Item(FileSave(repo, Head(assets)))

\* save_batch(assets)
FileSaveBatch(repo, assets) ==
    LET Result(l) ==
            IF l.errors > 0 /\ l.saved = <<>>
            THEN [repo |-> l.repo, exc |-> "RepositoryError", ret |-> None]
            ELSE [repo |-> l.repo, exc |-> "none", ret |-> l.saved]
    IN Result(FileSaveLoop(repo, assets, <<>>, 0))

RECURSIVE FileUpdateLoop(_, _, _, _)
FileUpdateLoop(repo, assets, updated, errors) ==
    IF assets = <<>> THEN [repo |-> repo, saved |-> updated, errors |-> errors]
    ELSE LET Item(r) ==
                 FileUpdateLoop(r.repo, Tail(assets),
                                IF r.exc = "none"
                                THEN Append(updated, Head(assets).asset_id)
                                ELSE updated,
                                IF r.exc = "none" THEN errors ELSE errors + 1)
         IN Item(FileUpdate(repo, Head(assets)))

\* update_batch(assets)
FileUpdateBatch(repo, assets) ==
    LET Result(l) ==
            IF l.errors > 0 /\ l.saved = <<>>
            THEN [repo |-> l.repo, exc |-> "RepositoryError", ret |-> None]
            ELSE [repo |-> l.repo, exc |-> "none", ret |-> l.saved]
    IN Result(FileUpdateLoop(repo, assets, <<>>, 0))

\* delete_batch(asset_ids): a delete that raises is logged and skipped.
RECURSIVE FileDeleteLoop(_, _, _)
FileDeleteLoop(repo, asset_ids, deleted_count) ==
    IF asset_ids = <<>> THEN [repo |-> repo, exc |-> "none", ret |-> deleted_count]
    ELSE LET Item(r) ==
                 FileDeleteLoop(r.repo, Tail(asset_ids),
                                IF r.exc = "none" /\ r.ret
                                THEN deleted_count + 1 ELSE deleted_count)
         IN Item(FileDelete(repo, Head(asset_ids)))

FileDeleteBatch(repo, asset_ids) == FileDeleteLoop(repo, asset_ids, 0)

\* _matches_filters(asset, filters); filters is a map from filter name to
\* value (the empty map stands for None).
matches_filters(asset, filters) ==
    /\ "asset_type" \in DOMAIN filters => asset.asset_type = filters.asset_type
    /\ "provider" \in DOMAIN filters => asset.provider = filters.provider
    /\ "status" \in DOMAIN filters => asset.status = filters.status
    /\ "min_risk_score" \in DOMAIN filters
          => asset.risk_score >= filters.min_risk_score
    /\ "max_risk_score" \in DOMAIN filters
          => asset.risk_score <= filters.max_risk_score

\* find_all(filters) without limit and offset, as the set of returned assets
\* (one per entity file).
FileFindAll(repo, filters) ==
    {a \in {from_dict(repo.files[id]) : id \in DOMAIN repo.files} :
        matches_filters(a, filters)}

\* count(filters) == len(self.find_all(filters))
FileCount(repo, filters) == Cardinality(FileFindAll(repo, filters))

\* find_by_type / find_by_provider: the ids listed in the index whose
\* entity file can be loaded.
FileFindByType(repo, asset_type) ==
    IF asset_type \in DOMAIN repo.by_type
    THEN {id \in Range(repo.by_type[asset_type]) : id \in DOMAIN repo.files}
    ELSE {}

FileFindByProvider(repo, provider) ==
    IF provider \in DOMAIN repo.by_provider
    THEN {id \in Range(repo.by_provider[provider]) : id \in DOMAIN repo.files}
    ELSE {}

\* find_by_tags(tags): ids listed under every rendered pair of the argument.
FileFindByTags(repo, tags) ==
    IF DOMAIN tags = {} THEN {}
    ELSE {id \in DOMAIN repo.files :
            \A k \in DOMAIN tags :
                /\ tag_str(k, tags[k]) \in DOMAIN repo.by_tags
                /\ id \in Range(repo.by_tags[tag_str(k, tags[k])])}

(***************************************************************************)
(* SQLiteAssetRepository (src/src/adapters/storage/sqlite_repository.py)   *)
(* The database is [assets, asset_tags, relationships]: assets and         *)
(* relationships map a primary key to its row, asset_tags is the set of    *)
(* (asset_id, tag_key, tag_value) rows.  Every operation runs in one       *)
(* get_connection scope: commit at the end of the block, rollback when the *)
(* block raises.                                                           *)
(***************************************************************************)
EmptySqlDb == [assets |-> EmptyMap, asset_tags |-> {}, relationships |-> EmptyMap]

\* No operation is inside get_connection().
\* No call is inside `with self.connection.get_connection()` (or
\* get_session()): nothing is open.  `work` is what the open connection
\* sees, `pre` the database when it was opened, `wrote` tells that a
\* statement of the body changed rows, `end` how the transaction ended.
NoConnection ==
    [pc |-> "idle", open |-> FALSE, op |-> "none", asset |-> None,
     work |-> EmptySqlDb, pre |-> EmptySqlDb, wrote |-> FALSE,
     exc |-> "none", end |-> "none"]

\* _asset_to_row: complex fields through json.dumps (no default).
asset_to_row(asset) ==
    [ asset_id |-> asset.asset_id, asset_type |-> asset.asset_type,
      provider |-> asset.provider, name |-> asset.name,
      properties |-> JsonDumpMap(asset.properties, FALSE),
      tags |-> JsonDumpTags(asset.tags),
      metadata |-> JsonDumpMap(asset.metadata, FALSE),
      created_at |-> isoformat(asset.created_at),
      updated_at |-> isoformat(asset.updated_at),
      discovered_at |-> isoformat(asset.discovered_at),
      status |-> asset.status, health |-> asset.health,
      compliance_status |-> asset.compliance_status,
      risk_score |-> asset.risk_score,
      estimated_cost |-> asset.estimated_cost ]

\* json.dumps raised inside _asset_to_row.
RowRaises(asset) ==
    \/ JsonDumpMap(asset.properties, FALSE) = TypeError
    \/ JsonDumpMap(asset.metadata, FALSE) = TypeError

\* _row_to_asset
row_to_asset(row) ==
    [ asset_id |-> row.asset_id, asset_type |-> row.asset_type,
      provider |-> row.provider, name |-> row.name,
      properties |-> JsonLoadMap(row.properties),
      tags |-> JsonLoadTags(row.tags),
      metadata |-> JsonLoadMap(row.metadata),
      created_at |-> fromisoformat(row.created_at),
      updated_at |-> fromisoformat(row.updated_at),
      discovered_at |-> fromisoformat(row.discovered_at),
      status |-> row.status, health |-> row.health,
      compliance_status |-> row.compliance_status,
      risk_score |-> row.risk_score, estimated_cost |-> row.estimated_cost ]

TagRows(asset) ==
    {[asset_id |-> asset.asset_id, tag_key |-> k, tag_value |-> asset.tags[k]] :
        k \in DOMAIN asset.tags}

\* INSERT INTO assets ... ; INSERT INTO asset_tags ... for each tag.
SqlInsertAsset(db, asset) ==
    [db EXCEPT
        !.assets = [k \in DOMAIN db.assets \cup {asset.asset_id} |->
                       IF k = asset.asset_id THEN asset_to_row(asset)
                                             ELSE db.assets[k]],
        !.asset_tags = @ \cup TagRows(asset)]

\* UPDATE assets SET ... ; DELETE FROM asset_tags ... ; re-insert the tags.
SqlWriteUpdate(db, asset) ==
    [db EXCEPT
        !.assets = [@ EXCEPT ![asset.asset_id] = asset_to_row(asset)],
        !.asset_tags = {t \in @ : t.asset_id # asset.asset_id}
                       \cup TagRows(asset)]

\* PRIMARY KEY (asset_id, tag_key) of asset_tags refuses the INSERT of a
\* tag whose key the table still holds for this asset id.
SqlTagConflict(db, asset) ==
    \E t \in db.asset_tags :
        t.asset_id = asset.asset_id /\ t.tag_key \in DOMAIN asset.tags

\* The tag loop of save up to the INSERT that is refused.
RECURSIVE SqlTagLoop(_, _, _)
SqlTagLoop(rows, asset, keys) ==
    IF keys = {} THEN rows
    ELSE LET k == CHOOSE x \in keys : TRUE IN
         IF \E t \in rows : t.asset_id = asset.asset_id /\ t.tag_key = k
         THEN rows
         ELSE SqlTagLoop(rows \cup {[asset_id |-> asset.asset_id,
                                     tag_key |-> k,
                                     tag_value |-> asset.tags[k]]},
                         asset, keys \ {k})

\* What the statements of one save_batch item leave in the transaction
\* when a tag INSERT is refused: the assets row and the tags before it.
SqlInsertPartial(db, asset) ==
    [db EXCEPT
        !.assets = [k \in DOMAIN db.assets \cup {asset.asset_id} |->
                       IF k = asset.asset_id THEN asset_to_row(asset)
                                             ELSE db.assets[k]],
        !.asset_tags = SqlTagLoop(@, asset, DOMAIN asset.tags)]

\* save(asset): DuplicateAssetError leaves the with-block as it is (only
\* sqlite3.Error is wrapped); TypeError from json.dumps escapes unwrapped.
SqlSave(db, asset) ==
    IF asset.asset_id \in DOMAIN db.assets
    THEN [db |-> db, exc |-> "DuplicateAssetError", ret |-> None]
    ELSE IF RowRaises(asset)
    THEN [db |-> db, exc |-> "TypeError", ret |-> None]
    ELSE IF SqlTagConflict(db, asset)
    THEN [db |-> db, exc |-> "RepositoryError", ret |-> None]
    ELSE [db |-> SqlInsertAsset(db, asset), exc |-> "none", ret |-> asset]

\* The loop of save_batch inside one transaction: a stored id is skipped;
\* an item that raises is re-raised only while nothing has been saved yet.
RECURSIVE SqlSaveLoop(_, _, _)
SqlSaveLoop(db, assets, saved) ==
    IF assets = <<>> THEN [db |-> db, exc |-> "none", ret |-> saved]
    ELSE LET a == Head(assets) IN
         IF a.asset_id \in DOMAIN db.assets
         THEN SqlSaveLoop(db, Tail(assets), saved)
         ELSE IF RowRaises(a)
         THEN IF saved = <<>>
              THEN [db |-> db, exc |-> "TypeError", ret |-> None]
              ELSE SqlSaveLoop(db, Tail(assets), saved)
         ELSE IF SqlTagConflict(db, a)
         THEN IF saved = <<>>
              THEN [db |-> db, exc |-> "RepositoryError", ret |-> None]
              ELSE SqlSaveLoop(SqlInsertPartial(db, a), Tail(assets), saved)
         ELSE SqlSaveLoop(SqlInsertAsset(db, a), Tail(assets),
                          Append(saved, a.asset_id))

\* save_batch(assets): the transaction is rolled back when the loop raises.
SqlSaveBatch(db, assets) ==
    LET Commit(l) == IF l.exc = "none" THEN l ELSE [l EXCEPT !.db = db]
    IN Commit(SqlSaveLoop(db, assets, <<>>))

\* update(asset)
SqlUpdate(db, asset) ==
    IF asset.asset_id \notin DOMAIN db.assets
    THEN [db |-> db, exc |-> "AssetNotFoundError", ret |-> None]
    ELSE LET new == [asset EXCEPT !.updated_at = utcnow] IN
         IF RowRaises(new)
         THEN [db |-> db, exc |-> "TypeError", ret |-> None]
         ELSE [db |-> SqlWriteUpdate(db, new), exc |-> "none", ret |-> new]

RECURSIVE SqlUpdateLoop(_, _, _)
SqlUpdateLoop(db, assets, updated) ==
    IF assets = <<>> THEN [db |-> db, exc |-> "none", ret |-> updated]
    ELSE LET a == [Head(assets) EXCEPT !.updated_at = utcnow] IN
         IF a.asset_id \notin DOMAIN db.assets
         THEN SqlUpdateLoop(db, Tail(assets), updated)
         ELSE IF RowRaises(a)
         THEN IF updated = <<>>
              THEN [db |-> db, exc |-> "TypeError", ret |-> None]
              ELSE SqlUpdateLoop(db, Tail(assets), updated)
         ELSE SqlUpdateLoop(SqlWriteUpdate(db, a), Tail(assets),
                            Append(updated, a.asset_id))

\* update_batch(assets)
SqlUpdateBatch(db, assets) ==
    LET Commit(l) == IF l.exc = "none" THEN l ELSE [l EXCEPT !.db = db]
    IN Commit(SqlUpdateLoop(db, assets, <<>>))

\* DELETE FROM assets WHERE asset_id IN ids, with the ON DELETE CASCADE of
\* asset_tags and relationships when the connection ran PRAGMA
\* foreign_keys = ON.
SqlDeleteRows(db, ids) ==
    [ assets |-> [k \in DOMAIN db.assets \ ids |-> db.assets[k]],
      asset_tags |-> {t \in db.asset_tags :
                        foreign_keys => t.asset_id \notin ids},
      relationships |->
          [r \in {x \in DOMAIN db.relationships :
                     foreign_keys =>
                        /\ db.relationships[x].source_id \notin ids
                        /\ db.relationships[x].target_id \notin ids}
              |-> db.relationships[r]] ]

\* delete(asset_id)
SqlDelete(db, asset_id) ==
    [db |-> SqlDeleteRows(db, {asset_id}), exc |-> "none",
     ret |-> (asset_id \in DOMAIN db.assets)]

\* delete_batch(asset_ids)
SqlDeleteBatch(db, asset_ids) ==
    [db |-> SqlDeleteRows(db, Range(asset_ids)), exc |-> "none",
     ret |-> Cardinality(Range(asset_ids) \cap DOMAIN db.assets)]

\* find_by_id(asset_id)
SqlFindById(db, asset_id) ==
    IF asset_id \notin DOMAIN db.assets THEN None
    ELSE row_to_asset(db.assets[asset_id])

\* The WHERE clause find_all builds from the filters.
SqlFindAllWhere(row, filters) ==
    /\ "asset_type" \in DOMAIN filters => row.asset_type = filters.asset_type
    /\ "provider" \in DOMAIN filters => row.provider = filters.provider
    /\ "status" \in DOMAIN filters => row.status = filters.status
    /\ "min_risk_score" \in DOMAIN filters
          => row.risk_score >= filters.min_risk_score
    /\ "max_risk_score" \in DOMAIN filters
          => row.risk_score <= filters.max_risk_score

\* The WHERE clause count builds from the filters.
SqlCountWhere(row, filters) ==
    /\ "asset_type" \in DOMAIN filters => row.asset_type = filters.asset_type
    /\ "provider" \in DOMAIN filters => row.provider = filters.provider
    /\ "status" \in DOMAIN filters => row.status = filters.status
    /\ "min_risk_score" \in DOMAIN filters
          => row.risk_score >= filters.min_risk_score
    /\ "max_risk_score" \in DOMAIN filters
          => row.risk_score <= filters.max_risk_score

\* find_all(filters) without limit and offset.
SqlFindAll(db, filters) ==
    {row_to_asset(db.assets[id]) :
        id \in {x \in DOMAIN db.assets : SqlFindAllWhere(db.assets[x], filters)}}

\* count(filters)
SqlCount(db, filters) ==
    Cardinality({x \in DOMAIN db.assets : SqlCountWhere(db.assets[x], filters)})

\* find_by_tags(tags) for a non-empty argument: the join with asset_tags,
\* HAVING COUNT(DISTINCT tag_key) = len(tags).
SqlFindByTags(db, tags) ==
    {id \in DOMAIN db.assets :
        Cardinality({t.tag_key : t \in {x \in db.asset_tags :
            /\ x.asset_id = id
            /\ x.tag_key \in DOMAIN tags
            /\ x.tag_value = tags[x.tag_key]}}) = Cardinality(DOMAIN tags)}

(***************************************************************************)
(* MemgraphAssetRepository (src/src/adapters/storage/memgraph_repository.py)*)
(* The graph database is [nodes, edges]: nodes maps an asset_id to the     *)
(* properties of its Asset node, edges is the list of RELATIONSHIP edges.  *)
(* Every statement is auto-committed.  fallback_repository, when           *)
(* configured, is a FileBasedAssetRepository.                              *)
(***************************************************************************)
EmptyGraphDb == [nodes |-> EmptyMap, edges |-> <<>>]

\* _use_fallback()
use_fallback == ~available /\ has_fallback

\* Every operation that does not take the _use_fallback() branch opens a
\* session of the primary (with self.connection.get_session() as session)
\* and runs its first query in it.
primary_session == backend = "memgraph" /\ ~use_fallback

\* __init__ raised RepositoryError("Memgraph unavailable and no fallback
\* configured"): there is no instance to call.
ctor_raised == backend = "memgraph" /\ ~available /\ ~has_fallback

\* session.run raises a connectivity error when the endpoint does not answer.
connectivity_error == primary_session /\ ~reachable

\* _asset_to_node / _node_to_asset: the same field set as the SQLite row.
asset_to_node(asset) == asset_to_row(asset)
node_to_asset(node) == row_to_asset(node)

HasEdges(g, asset_id) ==
    \E i \in DOMAIN g.edges :
        g.edges[i].source_id = asset_id \/ g.edges[i].target_id = asset_id

PutNode(g, asset) ==
    [g EXCEPT !.nodes = [k \in DOMAIN g.nodes \cup {asset.asset_id} |->
                            IF k = asset.asset_id THEN asset_to_node(asset)
                                                  ELSE g.nodes[k]]]

\* The except branch shared by the operations: hand the call to the
\* fallback repository when there is one, else raise RepositoryError.
\* `fbcall` is the outcome of the same call on the fallback repository.
GraphExcept(g, fb, fbcall) ==
    IF has_fallback
    THEN [g |-> g, fb |-> fbcall.repo, exc |-> fbcall.exc, ret |-> fbcall.ret]
    ELSE [g |-> g, fb |-> fb, exc |-> "RepositoryError", ret |-> None]

GraphDelegate(g, fbcall) ==
    [g |-> g, fb |-> fbcall.repo, exc |-> fbcall.exc, ret |-> fbcall.ret]

\* What a query returns when it raises.
Raised(exc) == [raised |-> exc]

\* The except branch of the queries; `fbret` is what the same query on the
\* fallback repository returns.
GraphQueryExcept(fbret) ==
    IF has_fallback THEN fbret ELSE Raised("RepositoryError")

\* save(asset)
GraphSave(g, fb, asset) ==
    LET Route(fbcall) ==
            IF use_fallback THEN GraphDelegate(g, fbcall)
            ELSE IF ~reachable THEN GraphExcept(g, fb, fbcall)
            ELSE IF asset.asset_id \in DOMAIN g.nodes \/ RowRaises(asset)
            THEN GraphExcept(g, fb, fbcall)
            ELSE [g |-> PutNode(g, asset), fb |-> fb, exc |-> "none",
                  ret |-> asset]
    IN Route(FileSave(fb, asset))

\* The loop of save_batch on the primary.
RECURSIVE GraphSaveLoop(_, _, _)
GraphSaveLoop(g, assets, saved) ==
    IF assets = <<>> THEN [g |-> g, exc |-> "none", ret |-> saved]
    ELSE LET a == Head(assets) IN
         IF a.asset_id \in DOMAIN g.nodes
         THEN GraphSaveLoop(g, Tail(assets), saved)
         ELSE IF RowRaises(a)
         THEN IF saved = <<>>
              THEN [g |-> g, exc |-> "TypeError", ret |-> None]
              ELSE GraphSaveLoop(g, Tail(assets), saved)
         ELSE GraphSaveLoop(PutNode(g, a), Tail(assets),
                            Append(saved, a.asset_id))

\* save_batch(assets)
GraphSaveBatch(g, fb, assets) ==
    LET Route(l, fbcall) ==
            IF use_fallback THEN GraphDelegate(g, fbcall)
            ELSE IF ~reachable THEN GraphExcept(g, fb, fbcall)
            ELSE IF l.exc = "none"
            THEN [g |-> l.g, fb |-> fb, exc |-> "none", ret |-> l.ret]
            ELSE GraphExcept(l.g, fb, fbcall)
    IN Route(GraphSaveLoop(g, assets, <<>>), FileSaveBatch(fb, assets))

\* update(asset)
GraphUpdate(g, fb, asset) ==
    LET new == [asset EXCEPT !.updated_at = utcnow]
        Route(fbcall) ==
            IF use_fallback THEN GraphDelegate(g, fbcall)
            ELSE IF ~reachable THEN GraphExcept(g, fb, fbcall)
            ELSE IF asset.asset_id \notin DOMAIN g.nodes \/ RowRaises(new)
            THEN GraphExcept(g, fb, fbcall)
            ELSE [g |-> PutNode(g, new), fb |-> fb, exc |-> "none",
                  ret |-> new]
    IN Route(FileUpdate(fb, asset))

RECURSIVE GraphUpdateLoop(_, _, _)
GraphUpdateLoop(g, assets, updated) ==
    IF assets = <<>> THEN [g |-> g, exc |-> "none", ret |-> updated]
    ELSE LET a == [Head(assets) EXCEPT !.updated_at = utcnow] IN
         IF a.asset_id \notin DOMAIN g.nodes
         THEN GraphUpdateLoop(g, Tail(assets), updated)
         ELSE IF RowRaises(a)
         THEN IF updated = <<>>
              THEN [g |-> g, exc |-> "TypeError", ret |-> None]
              ELSE GraphUpdateLoop(g, Tail(assets), updated)
         ELSE GraphUpdateLoop(PutNode(g, a), Tail(assets),
                              Append(updated, a.asset_id))

\* update_batch(assets)
GraphUpdateBatch(g, fb, assets) ==
    LET Route(l, fbcall) ==
            IF use_fallback THEN GraphDelegate(g, fbcall)
            ELSE IF ~reachable THEN GraphExcept(g, fb, fbcall)
            ELSE IF l.exc = "none"
            THEN [g |-> l.g, fb |-> fb, exc |-> "none", ret |-> l.ret]
            ELSE GraphExcept(l.g, fb, fbcall)
    IN Route(GraphUpdateLoop(g, assets, <<>>), FileUpdateBatch(fb, assets))

DropNodes(g, ids) == [g EXCEPT !.nodes = [k \in DOMAIN g.nodes \ ids |-> g.nodes[k]]]

\* delete(asset_id): MATCH (a:Asset {asset_id}) DELETE a RETURN COUNT(a).
\* DELETE (not DETACH DELETE) of a node that still has edges is refused by
\* the database, which surfaces as an exception of session.run.
GraphDelete(g, fb, asset_id) ==
    LET Route(fbcall) ==
            IF use_fallback THEN GraphDelegate(g, fbcall)
            ELSE IF ~reachable THEN GraphExcept(g, fb, fbcall)
            ELSE IF asset_id \in DOMAIN g.nodes /\ HasEdges(g, asset_id)
            THEN GraphExcept(g, fb, fbcall)
            ELSE [g |-> DropNodes(g, {asset_id}), fb |-> fb, exc |-> "none",
                  ret |-> (asset_id \in DOMAIN g.nodes)]
    IN Route(FileDelete(fb, asset_id))

\* delete_batch(asset_ids)
GraphDeleteBatch(g, fb, asset_ids) ==
    LET Route(fbcall) ==
            IF use_fallback THEN GraphDelegate(g, fbcall)
            ELSE IF ~reachable THEN GraphExcept(g, fb, fbcall)
            ELSE IF \E id \in Range(asset_ids) \cap DOMAIN g.nodes :
                        HasEdges(g, id)
            THEN GraphExcept(g, fb, fbcall)
            ELSE [g |-> DropNodes(g, Range(asset_ids)), fb |-> fb,
                  exc |-> "none",
                  ret |-> Cardinality(Range(asset_ids) \cap DOMAIN g.nodes)]
    IN Route(FileDeleteBatch(fb, asset_ids))

\* find_by_id(asset_id)
GraphFindById(g, fb, asset_id) ==
    IF use_fallback THEN FileFindById(fb, asset_id)
    ELSE IF ~reachable THEN GraphQueryExcept(FileFindById(fb, asset_id))
    ELSE IF asset_id \notin DOMAIN g.nodes THEN None
    ELSE node_to_asset(g.nodes[asset_id])

\* exists(asset_id)
GraphExists(g, fb, asset_id) ==
    IF use_fallback THEN FileExists(fb, asset_id)
    ELSE IF ~reachable THEN GraphQueryExcept(FileExists(fb, asset_id))
    ELSE asset_id \in DOMAIN g.nodes

\* The WHERE clauses find_all builds from the filters.
GraphFindAllWhere(node, filters) ==
    /\ "asset_type" \in DOMAIN filters => node.asset_type = filters.asset_type
    /\ "provider" \in DOMAIN filters => node.provider = filters.provider
    /\ "status" \in DOMAIN filters => node.status = filters.status
    /\ "min_risk_score" \in DOMAIN filters
          => node.risk_score >= filters.min_risk_score
    /\ "max_risk_score" \in DOMAIN filters
          => node.risk_score <= filters.max_risk_score

\* The WHERE clauses count builds from the filters: asset_type, provider
\* and status only.
GraphCountWhere(node, filters) ==
    /\ "asset_type" \in DOMAIN filters => node.asset_type = filters.asset_type
    /\ "provider" \in DOMAIN filters => node.provider = filters.provider
    /\ "status" \in DOMAIN filters => node.status = filters.status

\* find_all(filters) without limit and offset.
GraphFindAll(g, fb, filters) ==
    IF use_fallback THEN FileFindAll(fb, filters)
    ELSE IF ~reachable THEN GraphQueryExcept(FileFindAll(fb, filters))
    ELSE {node_to_asset(g.nodes[id]) :
            id \in {x \in DOMAIN g.nodes : GraphFindAllWhere(g.nodes[x], filters)}}

\* count(filters)
GraphCount(g, fb, filters) ==
    IF use_fallback THEN FileCount(fb, filters)
    ELSE IF ~reachable THEN GraphQueryExcept(FileCount(fb, filters))
    ELSE Cardinality({x \in DOMAIN g.nodes : GraphCountWhere(g.nodes[x], filters)})

\* find_by_tags(tags): scan of all nodes, comparing the decoded tags.
GraphFindByTags(g, fb, tags) ==
    IF use_fallback THEN FileFindByTags(fb, tags)
    ELSE IF ~reachable THEN GraphQueryExcept(FileFindByTags(fb, tags))
    ELSE {id \in DOMAIN g.nodes :
            LET asset == node_to_asset(g.nodes[id]) IN
            \A k \in DOMAIN tags :
                /\ k \in DOMAIN asset.tags
                /\ asset.tags[k] = tags[k]}

(***************************************************************************)
(* Relationship (src/src/domain/models/relationship.py)                    *)
(***************************************************************************)
Relationship(id, source_id, target_id, relationship_type) ==
    [ relationship_id |-> id, source_id |-> source_id, target_id |-> target_id,
      relationship_type |-> relationship_type, properties |-> EmptyMap,
      confidence |-> 1, created_at |-> T0, updated_at |-> T0,
      discovered_by |-> "manual", discovery_method |-> "explicit" ]

\* The relationships the operations are called with: validate() accepts
\* them (source and target differ, the type is an allowed one).
Relationships ==
    {Relationship(id, "a1", "a2", ty) :
        id \in RelationshipIds, ty \in RelationshipTypes}
    \cup {Relationship("r2", "a2", "a1", "depends_on")}

\* get_direction()
get_direction(r) ==
    IF r.relationship_type \in {"depends_on", "uses"} THEN "outbound"
    ELSE "unknown"

\* Relationship.to_dict()
relationship_to_dict(r) ==
    [ relationship_id |-> r.relationship_id, source_id |-> r.source_id,
      target_id |-> r.target_id, relationship_type |-> r.relationship_type,
      properties |-> r.properties, confidence |-> r.confidence,
      created_at |-> isoformat(r.created_at),
      updated_at |-> isoformat(r.updated_at),
      discovered_by |-> r.discovered_by,
      discovery_method |-> r.discovery_method,
      direction |-> get_direction(r) ]

\* Relationship.from_dict(data)
relationship_from_dict(d) ==
    [ relationship_id |-> d.relationship_id, source_id |-> d.source_id,
      target_id |-> d.target_id, relationship_type |-> d.relationship_type,
      properties |-> d.properties, confidence |-> d.confidence,
      created_at |-> fromisoformat(d.created_at),
      updated_at |-> fromisoformat(d.updated_at),
      discovered_by |-> d.discovered_by,
      discovery_method |-> d.discovery_method ]

\* The (source_id, target_id, relationship_type) of a relationship.
RelKey(r) == <<r.source_id, r.target_id, r.relationship_type>>

(***************************************************************************)
(* FileBasedRelationshipRepository                                         *)
(* (src/src/adapters/storage/file_repository.py)                           *)
(* [files, by_source, by_target, by_type]: files maps a relationship_id to *)
(* the dictionary read back from its entity file.                          *)
(***************************************************************************)
EmptyRelRepo ==
    [ files |-> EmptyMap, by_source |-> EmptyMap, by_target |-> EmptyMap,
      by_type |-> EmptyMap ]

RelFileJson(d) ==
    [d EXCEPT !.properties = JsonLoadMap(JsonDumpMap(d.properties, TRUE))]

RelPutFile(repo, id, d) ==
    [repo EXCEPT !.files = [k \in DOMAIN repo.files \cup {id} |->
                               IF k = id THEN RelFileJson(d) ELSE repo.files[k]]]

\* _update_index(relationship, remove)
FileRelUpdateIndex(repo, r, remove) ==
    LET Type(r2, y) ==
            IF ~y.ok THEN [repo |-> r2, exc |-> "ValueError"]
            ELSE [repo |-> [r2 EXCEPT !.by_type = y.idx], exc |-> "none"]
        Target(r1, t) ==
            IF ~t.ok THEN [repo |-> r1, exc |-> "ValueError"]
            ELSE Type([r1 EXCEPT !.by_target = t.idx],
                      IndexStep(repo.by_type, r.relationship_type,
                                r.relationship_id, remove))
        Source(s) ==
            IF ~s.ok THEN [repo |-> repo, exc |-> "ValueError"]
            ELSE Target([repo EXCEPT !.by_source = s.idx],
                        IndexStep(repo.by_target, r.target_id,
                                  r.relationship_id, remove))
    IN Source(IndexStep(repo.by_source, r.source_id, r.relationship_id,
                        remove))

\* find_by_id(relationship_id)
FileRelFindById(repo, relationship_id) ==
    IF relationship_id \notin DOMAIN repo.files THEN None
    ELSE relationship_from_dict(repo.files[relationship_id])

\* The loop of find_by_source / find_by_target / find_by_type over rel_ids.
RECURSIVE RelsOfIds(_, _)
RelsOfIds(repo, rel_ids) ==
    IF rel_ids = <<>> THEN <<>>
    ELSE LET rel == FileRelFindById(repo, Head(rel_ids)) IN
         IF rel = None THEN RelsOfIds(repo, Tail(rel_ids))
         ELSE <<rel>> \o RelsOfIds(repo, Tail(rel_ids))

IndexGet(idx, key) == IF key \in DOMAIN idx THEN idx[key] ELSE <<>>

\* find_by_source(source_id)
FileRelFindBySource(repo, source_id) ==
    RelsOfIds(repo, IndexGet(repo.by_source, source_id))

\* find_by_target(target_id)
FileRelFindByTarget(repo, target_id) ==
    RelsOfIds(repo, IndexGet(repo.by_target, target_id))

\* The relationships an asset is the source of, and no others.
OutgoingOnly(repo, asset_id) == FileRelFindBySource(repo, asset_id)

\* The de-duplication loop of find_by_asset.
RECURSIVE DedupRels(_, _)
DedupRels(rels, seen) ==
    IF rels = <<>> THEN <<>>
    ELSE IF Head(rels).relationship_id \in seen
    THEN DedupRels(Tail(rels), seen)
    ELSE <<Head(rels)>> \o
         DedupRels(Tail(rels), seen \cup {Head(rels).relationship_id})

\* find_by_asset(asset_id)
FileRelFindByAsset(repo, asset_id) ==
    DedupRels(FileRelFindBySource(repo, asset_id)
              \o FileRelFindByTarget(repo, asset_id), {})

\* _find_exact_relationship(source_id, target_id, relationship_type)
find_exact_relationship(repo, source_id, target_id, relationship_type) ==
    LET First(rels) ==
            LET hits == {i \in DOMAIN rels :
                            /\ rels[i].target_id = target_id
                            /\ rels[i].relationship_type = relationship_type}
            IN IF hits = {} THEN None
               ELSE rels[CHOOSE i \in hits : \A j \in hits : i <= j]
    IN First(FileRelFindBySource(repo, source_id))

\* save(relationship)
FileRelSave(repo, r) ==
    IF r.relationship_id \in DOMAIN repo.files
    THEN [repo |-> repo,
          exc |-> WrapRepositoryError("DuplicateRelationshipError"),
          ret |-> None]
    ELSE IF find_exact_relationship(repo, r.source_id, r.target_id,
                                    r.relationship_type) # None
    THEN [repo |-> repo,
          exc |-> WrapRepositoryError("DuplicateRelationshipError"),
          ret |-> None]
    ELSE LET Written(u) ==
                 [repo |-> u.repo, exc |-> WrapRepositoryError(u.exc),
                  ret |-> IF u.exc = "none" THEN r ELSE None]
         IN Written(FileRelUpdateIndex(
                        RelPutFile(repo, r.relationship_id,
                                   relationship_to_dict(r)), r, FALSE))

RECURSIVE FileRelSaveLoop(_, _, _, _)
FileRelSaveLoop(repo, rels, saved, errors) ==
    IF rels = <<>> THEN [repo |-> repo, saved |-> saved, errors |-> errors]
    ELSE LET Item(r) ==
                 FileRelSaveLoop(r.repo, Tail(rels),
                                 IF r.exc = "none"
                                 THEN Append(saved, Head(rels).relationship_id)
                                 ELSE saved,
                                 IF r.exc \in {"none",
                                               "DuplicateRelationshipError"}
                                 THEN errors ELSE errors + 1)
         IN Item(FileRelSave(repo, Head(rels)))

\* save_batch(relationships)
FileRelSaveBatch(repo, rels) ==
    LET Result(l) ==
            IF l.errors > 0 /\ l.saved = <<>>
            THEN [repo |-> l.repo, exc |-> "RepositoryError", ret |-> None]
            ELSE [repo |-> l.repo, exc |-> "none", ret |-> l.saved]
    IN Result(FileRelSaveLoop(repo, rels, <<>>, 0))

\* update(relationship)
FileRelUpdate(repo, r) ==
    IF r.relationship_id \notin DOMAIN repo.files
    THEN [repo |-> repo,
          exc |-> WrapRepositoryError("RelationshipNotFoundError"),
          ret |-> None]
    ELSE LET old_rel == relationship_from_dict(repo.files[r.relationship_id])
             new == [r EXCEPT !.updated_at = utcnow]
             written == RelPutFile(repo, r.relationship_id,
                                   relationship_to_dict(new))
         IN IF RelKey(old_rel) # RelKey(new)
            THEN LET Added(ad) ==
                         [repo |-> ad.repo,
                          exc |-> WrapRepositoryError(ad.exc),
                          ret |-> IF ad.exc = "none" THEN new ELSE None]
                     Removed(rm) ==
                         IF rm.exc # "none"
                         THEN [repo |-> rm.repo,
                               exc |-> WrapRepositoryError(rm.exc),
                               ret |-> None]
                         ELSE Added(FileRelUpdateIndex(rm.repo, new, FALSE))
                 IN Removed(FileRelUpdateIndex(written, old_rel, TRUE))
            ELSE [repo |-> written, exc |-> "none", ret |-> new]

\* delete(relationship_id)
FileRelDelete(repo, relationship_id) ==
    IF relationship_id \notin DOMAIN repo.files
    THEN [repo |-> repo, exc |-> "none", ret |-> FALSE]
    ELSE LET Unindexed(u) ==
                 [repo |-> u.repo, exc |-> WrapRepositoryError(u.exc),
                  ret |-> (u.exc = "none")]
         IN Unindexed(FileRelUpdateIndex(
                          Unlink(repo, relationship_id),
                          relationship_from_dict(repo.files[relationship_id]),
                          TRUE))

\* The loop of delete_by_asset: an exception of delete leaves the loop.
RECURSIVE FileRelDeleteLoop(_, _, _)
FileRelDeleteLoop(repo, rels, deleted_count) ==
    IF rels = <<>> THEN [repo |-> repo, exc |-> "none", ret |-> deleted_count]
    ELSE LET Item(d) ==
                 IF d.exc # "none"
                 THEN [repo |-> d.repo, exc |-> d.exc, ret |-> None]
                 ELSE FileRelDeleteLoop(d.repo, Tail(rels),
                                        IF d.ret THEN deleted_count + 1
                                                 ELSE deleted_count)
         IN Item(FileRelDelete(repo, Head(rels).relationship_id))

\* delete_by_asset(asset_id)
FileRelDeleteByAsset(repo, asset_id) ==
    FileRelDeleteLoop(repo, FileRelFindByAsset(repo, asset_id), 0)

\* The stored relationships: one per entity file.
FileRelAll(repo) == {relationship_from_dict(repo.files[id]) : id \in DOMAIN repo.files}

(***************************************************************************)
(* SQLiteRelationshipRepository                                            *)
(* (src/src/adapters/storage/sqlite_repository.py)                         *)
(* The relationships table: relationship_id PRIMARY KEY, source_id and     *)
(* target_id REFERENCES assets ON DELETE CASCADE,                          *)
(* UNIQUE(source_id, target_id, relationship_type).                        *)
(***************************************************************************)
\* _relationship_to_row
relationship_to_row(r) ==
    [ relationship_id |-> r.relationship_id, source_id |-> r.source_id,
      target_id |-> r.target_id, relationship_type |-> r.relationship_type,
      properties |-> JsonDumpMap(r.properties, FALSE),
      confidence |-> r.confidence,
      created_at |-> isoformat(r.created_at),
      updated_at |-> isoformat(r.updated_at),
      discovered_by |-> r.discovered_by,
      discovery_method |-> r.discovery_method ]

\* _row_to_relationship
row_to_relationship(row) ==
    [ relationship_id |-> row.relationship_id, source_id |-> row.source_id,
      target_id |-> row.target_id, relationship_type |-> row.relationship_type,
      properties |-> JsonLoadMap(row.properties),
      confidence |-> row.confidence,
      created_at |-> fromisoformat(row.created_at),
      updated_at |-> fromisoformat(row.updated_at),
      discovered_by |-> row.discovered_by,
      discovery_method |-> row.discovery_method ]

\* UNIQUE(source_id, target_id, relationship_type): a row other than `id`
\* already holds the key of r.
SqlUniqueFails(db, r, id) ==
    \E k \in DOMAIN db.relationships \ {id} : RelKey(db.relationships[k]) = RelKey(r)

\* FOREIGN KEY (source_id), (target_id) REFERENCES assets(asset_id),
\* enforced on connections that ran PRAGMA foreign_keys = ON.
SqlForeignKeyFails(db, r) ==
    /\ foreign_keys
    /\ r.source_id \notin DOMAIN db.assets \/ r.target_id \notin DOMAIN db.assets

SqlPutRel(db, r) ==
    [db EXCEPT !.relationships =
        [k \in DOMAIN db.relationships \cup {r.relationship_id} |->
            IF k = r.relationship_id THEN relationship_to_row(r)
                                     ELSE db.relationships[k]]]

\* save(relationship)
SqlRelSave(db, r) ==
    IF r.relationship_id \in DOMAIN db.relationships
    THEN [db |-> db, exc |-> "DuplicateRelationshipError", ret |-> None]
    ELSE IF SqlUniqueFails(db, r, r.relationship_id)
    THEN [db |-> db, exc |-> "DuplicateRelationshipError", ret |-> None]
    ELSE IF SqlForeignKeyFails(db, r)
    THEN [db |-> db, exc |-> "RepositoryError", ret |-> None]
    ELSE [db |-> SqlPutRel(db, r), exc |-> "none", ret |-> r]

\* The loop of save_batch: a stored key is skipped; a failing INSERT is
\* re-raised only while nothing has been saved yet.
RECURSIVE SqlRelSaveLoop(_, _, _)
SqlRelSaveLoop(db, rels, saved) ==
    IF rels = <<>> THEN [db |-> db, exc |-> "none", ret |-> saved]
    ELSE LET r == Head(rels) IN
         IF SqlUniqueFails(db, r, "")
         THEN SqlRelSaveLoop(db, Tail(rels), saved)
         ELSE IF \/ r.relationship_id \in DOMAIN db.relationships
                 \/ SqlForeignKeyFails(db, r)
         THEN IF saved = <<>>
              THEN [db |-> db, exc |-> "RepositoryError", ret |-> None]
              ELSE SqlRelSaveLoop(db, Tail(rels), saved)
         ELSE SqlRelSaveLoop(SqlPutRel(db, r), Tail(rels),
                             Append(saved, r.relationship_id))

\* save_batch(relationships)
SqlRelSaveBatch(db, rels) ==
    LET Commit(l) == IF l.exc = "none" THEN l ELSE [l EXCEPT !.db = db]
    IN Commit(SqlRelSaveLoop(db, rels, <<>>))

\* update(relationship)
SqlRelUpdate(db, r) ==
    IF r.relationship_id \notin DOMAIN db.relationships
    THEN [db |-> db, exc |-> "RelationshipNotFoundError", ret |-> None]
    ELSE LET new == [r EXCEPT !.updated_at = utcnow] IN
         IF SqlUniqueFails(db, new, r.relationship_id)
            \/ SqlForeignKeyFails(db, new)
         THEN [db |-> db, exc |-> "RepositoryError", ret |-> None]
         ELSE [db |-> SqlPutRel(db, new), exc |-> "none", ret |-> new]

SqlDropRels(db, ids) ==
    [db EXCEPT !.relationships =
        [k \in DOMAIN db.relationships \ ids |-> db.relationships[k]]]

\* delete(relationship_id)
SqlRelDelete(db, relationship_id) ==
    [db |-> SqlDropRels(db, {relationship_id}), exc |-> "none",
     ret |-> (relationship_id \in DOMAIN db.relationships)]

\* delete_by_asset(asset_id)
SqlRelDeleteByAsset(db, asset_id) ==
    LET ids == {k \in DOMAIN db.relationships :
                   \/ db.relationships[k].source_id = asset_id
                   \/ db.relationships[k].target_id = asset_id}
    IN [db |-> SqlDropRels(db, ids), exc |-> "none", ret |-> Cardinality(ids)]

\* find_by_id(relationship_id)
SqlRelFindById(db, relationship_id) ==
    IF relationship_id \notin DOMAIN db.relationships THEN None
    ELSE row_to_relationship(db.relationships[relationship_id])

SqlRelAll(db) ==
    {row_to_relationship(db.relationships[k]) : k \in DOMAIN db.relationships}

(***************************************************************************)
(* MemgraphRelationshipRepository                                          *)
(* (src/src/adapters/storage/memgraph_repository.py)                       *)
(* An edge is the property map of _relationship_to_edge together with the  *)
(* ids of the two nodes it connects.  fallback_repository, when            *)
(* configured, is a FileBasedRelationshipRepository.                       *)
(***************************************************************************)
\* _relationship_to_edge, and the nodes CREATE attaches the edge to.
relationship_to_edge(r, source_id, target_id) ==
    [ relationship_id |-> r.relationship_id,
      relationship_type |-> r.relationship_type,
      properties |-> JsonDumpMap(r.properties, FALSE),
      confidence |-> r.confidence,
      created_at |-> isoformat(r.created_at),
      updated_at |-> isoformat(r.updated_at),
      discovered_by |-> r.discovered_by,
      discovery_method |-> r.discovery_method,
      source_id |-> source_id, target_id |-> target_id ]

\* _edge_to_relationship(edge, source_id, target_id)
edge_to_relationship(edge) ==
    [ relationship_id |-> edge.relationship_id, source_id |-> edge.source_id,
      target_id |-> edge.target_id,
      relationship_type |-> edge.relationship_type,
      properties |-> JsonLoadMap(edge.properties),
      confidence |-> edge.confidence,
      created_at |-> fromisoformat(edge.created_at),
      updated_at |-> fromisoformat(edge.updated_at),
      discovered_by |-> edge.discovered_by,
      discovery_method |-> edge.discovery_method ]

\* MATCH (a1 {source_id})-[r {relationship_type}]->(a2 {target_id}) RETURN r
GraphEdgeExists(g, r) ==
    \E i \in DOMAIN g.edges :
        /\ g.edges[i].source_id = r.source_id
        /\ g.edges[i].target_id = r.target_id
        /\ g.edges[i].relationship_type = r.relationship_type

\* MATCH (a1 {source_id}) MATCH (a2 {target_id}) CREATE (a1)-[r $props]->(a2):
\* creates nothing when one of the two nodes is not matched.
GraphCreateEdge(g, r) ==
    IF r.source_id \in DOMAIN g.nodes /\ r.target_id \in DOMAIN g.nodes
    THEN [g EXCEPT !.edges =
              Append(@, relationship_to_edge(r, r.source_id, r.target_id))]
    ELSE g

\* save(relationship)
GraphRelSave(g, fb, r) ==
    LET Route(fbcall) ==
            IF use_fallback THEN GraphDelegate(g, fbcall)
            ELSE IF ~reachable THEN GraphExcept(g, fb, fbcall)
            ELSE IF GraphEdgeExists(g, r) THEN GraphExcept(g, fb, fbcall)
            ELSE [g |-> GraphCreateEdge(g, r), fb |-> fb, exc |-> "none",
                  ret |-> r]
    IN Route(FileRelSave(fb, r))

RECURSIVE GraphRelSaveLoop(_, _, _)
GraphRelSaveLoop(g, rels, saved) ==
    IF rels = <<>> THEN [g |-> g, exc |-> "none", ret |-> saved]
    ELSE LET r == Head(rels) IN
         IF GraphEdgeExists(g, r)
         THEN GraphRelSaveLoop(g, Tail(rels), saved)
         ELSE GraphRelSaveLoop(GraphCreateEdge(g, r), Tail(rels),
                               Append(saved, r.relationship_id))

\* save_batch(relationships)
GraphRelSaveBatch(g, fb, rels) ==
    IF use_fallback THEN GraphDelegate(g, FileRelSaveBatch(fb, rels))
    ELSE IF ~reachable THEN GraphExcept(g, fb, FileRelSaveBatch(fb, rels))
    ELSE LET Result(l) == [g |-> l.g, fb |-> fb, exc |-> "none", ret |-> l.ret]
         IN Result(GraphRelSaveLoop(g, rels, <<>>))

GraphEdgesOfId(g, relationship_id) ==
    {i \in DOMAIN g.edges : g.edges[i].relationship_id = relationship_id}

\* update(relationship): SET r = $props replaces the properties of the
\* matched edges; the nodes an edge connects stay as they are.
GraphRelUpdate(g, fb, r) ==
    LET new == [r EXCEPT !.updated_at = utcnow]
        Route(fbcall) ==
            IF use_fallback THEN GraphDelegate(g, fbcall)
            ELSE IF ~reachable THEN GraphExcept(g, fb, fbcall)
            ELSE IF GraphEdgesOfId(g, r.relationship_id) = {}
            THEN GraphExcept(g, fb, fbcall)
            ELSE [g |-> [g EXCEPT !.edges =
                      [i \in DOMAIN g.edges |->
                          IF g.edges[i].relationship_id = r.relationship_id
                          THEN relationship_to_edge(new, g.edges[i].source_id,
                                                    g.edges[i].target_id)
                          ELSE g.edges[i]]],
                  fb |-> fb, exc |-> "none", ret |-> new]
    IN Route(FileRelUpdate(fb, r))

\* The edge list without the edges at the positions in `drop`.
RECURSIVE DropEdges(_, _, _)
DropEdges(edges, drop, i) ==
    IF i > Len(edges) THEN <<>>
    ELSE IF i \in drop THEN DropEdges(edges, drop, i + 1)
    ELSE <<edges[i]>> \o DropEdges(edges, drop, i + 1)

\* delete(relationship_id)
GraphRelDelete(g, fb, relationship_id) ==
    IF use_fallback THEN GraphDelegate(g, FileRelDelete(fb, relationship_id))
    ELSE IF ~reachable
    THEN GraphExcept(g, fb, FileRelDelete(fb, relationship_id))
    ELSE LET hit == GraphEdgesOfId(g, relationship_id) IN
         [g |-> [g EXCEPT !.edges = DropEdges(g.edges, hit, 1)], fb |-> fb,
          exc |-> "none", ret |-> (hit # {})]

\* delete_by_asset(asset_id)
GraphRelDeleteByAsset(g, fb, asset_id) ==
    IF use_fallback THEN GraphDelegate(g, FileRelDeleteByAsset(fb, asset_id))
    ELSE IF ~reachable
    THEN GraphExcept(g, fb, FileRelDeleteByAsset(fb, asset_id))
    ELSE LET hit == {i \in DOMAIN g.edges :
                        \/ g.edges[i].source_id = asset_id
                        \/ g.edges[i].target_id = asset_id}
         IN [g |-> [g EXCEPT !.edges = DropEdges(g.edges, hit, 1)], fb |-> fb,
             exc |-> "none", ret |-> Cardinality(hit)]

\* find_by_id(relationship_id): the values result.single() can return; the
\* database fixes no order between several edges of one relationship_id.
GraphRelFindById(g, fb, relationship_id) ==
    IF use_fallback THEN {FileRelFindById(fb, relationship_id)}
    ELSE IF ~reachable
    THEN {GraphQueryExcept(FileRelFindById(fb, relationship_id))}
    ELSE IF GraphEdgesOfId(g, relationship_id) = {} THEN {None}
    ELSE {edge_to_relationship(g.edges[i]) :
            i \in GraphEdgesOfId(g, relationship_id)}

GraphRelAll(g) == {edge_to_relationship(g.edges[i]) : i \in DOMAIN g.edges}

(***************************************************************************)
(* Threads of one process sharing a repository instance.  A thread is      *)
(* either idle or inside one call, at the statement `pc` of that call.     *)
(***************************************************************************)
Threads == {"t1", "t2"}

Idle ==
    [op |-> "idle", pc |-> "idle", id |-> "", asset |-> None, old |-> None,
     remove |-> FALSE, pre |-> None, alone |-> FALSE]

\* _write_json on the entity files of one directory: the destination paths,
\* the inodes behind the directory entries and the text a writer dumps, in
\* the pieces the buffered file object hands to the operating system.
\* (self.extension is ".json.gz" by default.)
Paths == {"a1.json.gz", "a2.json.gz"}
MaxChunks == 2
Inodes == 1..(MaxCalls + 1)

\* path.with_suffix('.tmp')
with_suffix(path) ==
    IF path = "a1.json.gz" THEN "a1.json.tmp" ELSE "a2.json.tmp"

\* json.dump(data, f): the complete text of the writer w.
Content(w) == [i \in 1..MaxChunks |-> <<w, i>>]
Hole == <<"hole", 0>>

\* a1.json.gz holds the complete text of an earlier write, a2.json.gz is
\* not there yet.
InitDisk ==
    [dir |-> [n \in {"a1.json.gz"} |-> 1],
     data |-> [i \in Inodes |-> IF i = 1 THEN Content("old") ELSE <<>>],
     next |-> 2]

\* `dir` maps the names that exist to their inodes; fd 0 is no descriptor.
IdleWriter == [pc |-> "idle", path |-> "", fd |-> 0, off |-> 0]
IdleReader == [pc |-> "idle", fd |-> 0, got |-> <<>>]

(***************************************************************************)
(* The repository under test and the calls made on it                      *)
(***************************************************************************)
\* Assets passed to a Memgraph asset repository.
GraphAssets ==
    { BaseAsset("a1"),
      [BaseAsset("a1") EXCEPT !.asset_type = "storage",
                              !.tags = [k \in {"e"} |-> "p=q"]],
      [BaseAsset("a1") EXCEPT !.status = "inactive", !.risk_score = 80],
      [BaseAsset("a1") EXCEPT !.properties =
          [k \in {"k"} |-> [py |-> "datetime", v |-> "x"]]],
      BaseAsset("a2"),
      [BaseAsset("a2") EXCEPT !.properties =
          [k \in {"k"} |-> [py |-> "datetime", v |-> "x"]]] }

\* The assets a caller passes to save / update.
CallAssets ==
    IF kind = "relationship" THEN {BaseAsset(id) : id \in AssetIds}
    ELSE IF backend = "memgraph" THEN GraphAssets
    ELSE Assets

\* The relationships a caller passes to save / update.
CallRelationships ==
    IF backend = "memgraph" /\ has_fallback
    THEN { Relationship("r1", "a1", "a2", "depends_on"),
           Relationship("r2", "a1", "a2", "depends_on"),
           Relationship("r2", "a1", "a2", "uses") }
    ELSE Relationships

\* Outcome of a call, as the four stores after it, the exception that
\* reached the caller ("none" when the call returned) and the return value.
FromFile(o) ==
    [file |-> o.repo, rel |-> relRepo, sql |-> sqlDb, graph |-> graphDb,
     exc |-> o.exc, ret |-> o.ret]
FromFileRel(o) ==
    [file |-> fileRepo, rel |-> o.repo, sql |-> sqlDb, graph |-> graphDb,
     exc |-> o.exc, ret |-> o.ret]
FromSql(o) ==
    [file |-> fileRepo, rel |-> relRepo, sql |-> o.db, graph |-> graphDb,
     exc |-> o.exc, ret |-> o.ret]
FromGraph(o) ==
    [file |-> o.fb, rel |-> relRepo, sql |-> sqlDb, graph |-> o.g,
     exc |-> o.exc, ret |-> o.ret]
FromGraphRel(o) ==
    [file |-> fileRepo, rel |-> o.fb, sql |-> sqlDb, graph |-> o.g,
     exc |-> o.exc, ret |-> o.ret]

\* AssetRepository.save / save_batch / update / update_batch / delete /
\* delete_batch of the configured backend.
SaveOut(asset) ==
    CASE backend = "file" -> FromFile(FileSave(fileRepo, asset))
      [] backend = "sqlite" -> FromSql(SqlSave(sqlDb, asset))
      [] OTHER -> FromGraph(GraphSave(graphDb, fileRepo, asset))
SaveBatchOut(assets) ==
    CASE backend = "file" -> FromFile(FileSaveBatch(fileRepo, assets))
      [] backend = "sqlite" -> FromSql(SqlSaveBatch(sqlDb, assets))
      [] OTHER -> FromGraph(GraphSaveBatch(graphDb, fileRepo, assets))
UpdateOut(asset) ==
    CASE backend = "file" -> FromFile(FileUpdate(fileRepo, asset))
      [] backend = "sqlite" -> FromSql(SqlUpdate(sqlDb, asset))
      [] OTHER -> FromGraph(GraphUpdate(graphDb, fileRepo, asset))
UpdateBatchOut(assets) ==
    CASE backend = "file" -> FromFile(FileUpdateBatch(fileRepo, assets))
      [] backend = "sqlite" -> FromSql(SqlUpdateBatch(sqlDb, assets))
      [] OTHER -> FromGraph(GraphUpdateBatch(graphDb, fileRepo, assets))
DeleteOut(asset_id) ==
    CASE backend = "file" -> FromFile(FileDelete(fileRepo, asset_id))
      [] backend = "sqlite" -> FromSql(SqlDelete(sqlDb, asset_id))
      [] OTHER -> FromGraph(GraphDelete(graphDb, fileRepo, asset_id))
DeleteBatchOut(asset_ids) ==
    CASE backend = "file" -> FromFile(FileDeleteBatch(fileRepo, asset_ids))
      [] backend = "sqlite" -> FromSql(SqlDeleteBatch(sqlDb, asset_ids))
      [] OTHER -> FromGraph(GraphDeleteBatch(graphDb, fileRepo, asset_ids))

\* RelationshipRepository.save / save_batch / update / delete /
\* delete_by_asset of the configured backend.
RelSaveOut(r) ==
    CASE backend = "file" -> FromFileRel(FileRelSave(relRepo, r))
      [] backend = "sqlite" -> FromSql(SqlRelSave(sqlDb, r))
      [] OTHER -> FromGraphRel(GraphRelSave(graphDb, relRepo, r))
RelSaveBatchOut(rels) ==
    CASE backend = "file" -> FromFileRel(FileRelSaveBatch(relRepo, rels))
      [] backend = "sqlite" -> FromSql(SqlRelSaveBatch(sqlDb, rels))
      [] OTHER -> FromGraphRel(GraphRelSaveBatch(graphDb, relRepo, rels))
RelUpdateOut(r) ==
    CASE backend = "file" -> FromFileRel(FileRelUpdate(relRepo, r))
      [] backend = "sqlite" -> FromSql(SqlRelUpdate(sqlDb, r))
      [] OTHER -> FromGraphRel(GraphRelUpdate(graphDb, relRepo, r))
RelDeleteOut(relationship_id) ==
    CASE backend = "file" -> FromFileRel(FileRelDelete(relRepo, relationship_id))
      [] backend = "sqlite" -> FromSql(SqlRelDelete(sqlDb, relationship_id))
      [] OTHER -> FromGraphRel(GraphRelDelete(graphDb, relRepo, relationship_id))
RelDeleteByAssetOut(asset_id) ==
    CASE backend = "file" -> FromFileRel(FileRelDeleteByAsset(relRepo, asset_id))
      [] backend = "sqlite" -> FromSql(SqlRelDeleteByAsset(sqlDb, asset_id))
      [] OTHER -> FromGraphRel(GraphRelDeleteByAsset(graphDb, relRepo, asset_id))

\* What a delete or delete_by_asset call returned, as Python prints it; ""
\* when the call raised and for the other operations.
Returned(op, out) ==
    IF op \in {"delete", "delete_relationship"} /\ out.exc = "none"
    THEN IF out.ret THEN "True" ELSE "False"
    ELSE IF op = "delete_by_asset" /\ out.exc = "none"
    THEN ToString(out.ret)
    ELSE ""

\* The call `op` has been made with outcome `out`.
Commit(op, out) ==
    /\ ~ctor_raised
    /\ fileRepo' = out.file
    /\ relRepo' = out.rel
    /\ sqlDb' = out.sql
    /\ graphDb' = out.graph
    /\ last' = [op |-> op, exc |-> out.exc, primary |-> primary_session,
                 degraded |-> conn_failed, ret |-> Returned(op, out)]
    /\ conn_failed' = (conn_failed \/ connectivity_error)
    /\ raised' = (raised \/ out.exc # "none")
    /\ UNCHANGED <<sqliteVars, backend, kind, has_fallback, available>>
    /\ UNCHANGED <<threads, lock, calls>>
    /\ UNCHANGED <<writeVars, endpointVars>>

\* The call `op` has been made on the repository with outcome `out`.
Called(op, out) == Commit(op, out) /\ UNCHANGED subject

\* The asset repository shares its database with the relationship
\* repository in the SQLite and Memgraph backends.
AssetCallsEnabled ==
    kind = "asset" \/ backend \in {"sqlite", "memgraph"}

save ==
    /\ AssetCallsEnabled
    /\ \E asset \in CallAssets : Called("save", SaveOut(asset))

save_batch ==
    /\ kind = "asset"
    /\ \E assets \in SeqsUpTo(BatchAssets, MaxBatch) :
          Called("save_batch", SaveBatchOut(assets))

update ==
    /\ kind = "asset"
    /\ \E asset \in CallAssets : Called("update", UpdateOut(asset))

update_batch ==
    /\ kind = "asset"
    /\ \E assets \in SeqsUpTo(BatchAssets, MaxBatch) :
          Called("update_batch", UpdateBatchOut(assets))

delete ==
    /\ AssetCallsEnabled
    /\ \E asset_id \in AssetIds :
          Called("delete", DeleteOut(asset_id))

delete_batch ==
    /\ kind = "asset"
    /\ \E asset_ids \in SeqsUpTo(AssetIds, MaxBatch) :
          Called("delete_batch", DeleteBatchOut(asset_ids))

\* Room in the graph for the edges a call can create.
EdgeRoom(n) == backend = "memgraph" => Len(graphDb.edges) + n <= MaxEdges

save_relationship ==
    /\ kind = "relationship"
    /\ EdgeRoom(1)
    /\ \E r \in CallRelationships :
          Called("save_relationship", RelSaveOut(r))

save_relationship_batch ==
    /\ kind = "relationship"
    /\ \E rels \in SeqsUpTo(CallRelationships, MaxBatch) :
          /\ EdgeRoom(Len(rels))
          /\ Called("save_relationship_batch", RelSaveBatchOut(rels))

update_relationship ==
    /\ kind = "relationship"
    /\ \E r \in CallRelationships :
          Called("update_relationship", RelUpdateOut(r))

delete_relationship ==
    /\ kind = "relationship"
    /\ \E relationship_id \in RelationshipIds :
          Called("delete_relationship", RelDeleteOut(relationship_id))

delete_by_asset ==
    /\ kind = "relationship"
    /\ \E asset_id \in AssetIds :
          Called("delete_by_asset", RelDeleteByAssetOut(asset_id))

\* The stores are empty and nothing has been called yet.
\* The domain object a domain-layer call works on; none while the
\* repositories are exercised.
NoSubject == [of |-> "none"]

InitRepositories ==
    /\ fileRepo = EmptyFileRepo
    /\ relRepo = EmptyRelRepo
    /\ sqlDb = EmptySqlDb
    /\ graphDb = EmptyGraphDb
    /\ raised = FALSE
    /\ last = [op |-> "none", exc |-> "none", primary |-> FALSE,
                degraded |-> FALSE, ret |-> ""]
    /\ threads = [t \in Threads |-> Idle]
    /\ lock = "free"
    /\ calls = 0
    /\ disk = InitDisk
    /\ writers = [t \in Threads |-> IdleWriter]
    /\ reader = IdleReader
    /\ conn_failed = FALSE
    /\ conn = NoConnection

InitStores ==
    /\ subject = NoSubject
    /\ InitRepositories

\* A repository whose constructor has returned, with an endpoint that
\* answers.  MemgraphConnection(...) can still have raised (the neo4j
\* package is an optional extra), which leaves _available False.
Init ==
    /\ backend \in {"file", "sqlite", "memgraph"}
    /\ kind \in {"asset", "relationship"}
    /\ has_fallback \in IF backend = "memgraph" THEN BOOLEAN ELSE {FALSE}
    /\ available \in IF has_fallback THEN BOOLEAN ELSE {TRUE}
    /\ reachable = TRUE
    /\ ctor_reachable = TRUE
    /\ foreign_keys = TRUE
    /\ InitStores

Next ==
    \/ save
    \/ save_batch
    \/ update
    \/ update_batch
    \/ delete
    \/ delete_batch
    \/ save_relationship
    \/ save_relationship_batch
    \/ update_relationship
    \/ delete_relationship
    \/ delete_by_asset

Spec == Init /\ [][Next]_vars

(***************************************************************************)
(* FileBasedAssetRepository called from several threads.  Each statement   *)
(* of save / update / delete that touches the directory is one step; the   *)
(* three index files of _update_index are rewritten one step each while    *)
(* self._lock is held.  `pre` is the store at the start of the call and    *)
(* `alone` tells that no other call has run since.                         *)
(***************************************************************************)
ThreadAssets ==
    { BaseAsset("a1"), [BaseAsset("a1") EXCEPT !.asset_type = "storage"],
      BaseAsset("a2") }

AllIdle == \A t \in Threads : threads[t].op = "idle"

\* Thread t enters the call `op`; the calls in progress are no longer alone.
Begin(t, op, id, asset) ==
    /\ threads[t].op = "idle"
    /\ calls' = calls + 1
    /\ threads' = [u \in Threads |->
                     IF u = t
                     THEN [op |-> op, pc |-> "exists", id |-> id,
                           asset |-> asset, old |-> None, remove |-> FALSE,
                           pre |-> fileRepo, alone |-> AllIdle]
                     ELSE [threads[u] EXCEPT !.alone = FALSE]]
    /\ UNCHANGED <<sqliteVars, subject, backend, kind, has_fallback, available, fileRepo, relRepo,
                   sqlDb, graphDb, raised, last, lock>>
    /\ UNCHANGED <<writeVars, endpointVars, conn_failed>>

\* The call of thread t returns, or raises exc.
Return(t, exc) ==
    /\ threads' = [threads EXCEPT ![t] = Idle]
    /\ raised' = (raised \/ exc # "none")

Goto(t, pc) ==
    /\ threads' = [threads EXCEPT ![t].pc = pc]
    /\ UNCHANGED raised

Frame == UNCHANGED <<sqliteVars, subject, backend, kind, has_fallback, available, relRepo, sqlDb,
                     graphDb, last, calls, writeVars, endpointVars,
                     conn_failed>>

thread_save ==
    /\ calls < MaxCalls
    /\ \E t \in Threads, asset \in ThreadAssets :
          Begin(t, "save", asset.asset_id, asset)

thread_update ==
    /\ calls < MaxCalls
    /\ \E t \in Threads, asset \in ThreadAssets :
          Begin(t, "update", asset.asset_id, asset)

thread_delete ==
    /\ calls < MaxCalls
    /\ \E t \in Threads, asset_id \in AssetIds :
          Begin(t, "delete", asset_id, None)

\* asset_path.exists()
path_exists ==
    \E t \in Threads :
        /\ threads[t].pc = "exists"
        /\ LET stored == threads[t].id \in DOMAIN fileRepo.files IN
           CASE threads[t].op = "save" ->
                    IF stored THEN Return(t, "RepositoryError")
                              ELSE Goto(t, "write")
             [] threads[t].op = "update" ->
                    IF stored THEN Goto(t, "read")
                              ELSE Return(t, "RepositoryError")
             [] OTHER ->
                    IF stored THEN Goto(t, "read") ELSE Return(t, "none")
        /\ UNCHANGED <<fileRepo, lock>>
        /\ Frame

\* self._read_json(asset_path); Asset.from_dict(...)
read_json ==
    \E t \in Threads :
        /\ threads[t].pc = "read"
        /\ IF threads[t].id \notin DOMAIN fileRepo.files
           THEN Return(t, "RepositoryError")
           ELSE /\ threads' =
                     [threads EXCEPT
                        ![t] = IF threads[t].op = "update"
                               THEN [@ EXCEPT
                                       !.old = from_dict(
                                                fileRepo.files[threads[t].id]),
                                       !.pc = "write"]
                               ELSE [@ EXCEPT
                                       !.asset = from_dict(
                                                fileRepo.files[threads[t].id]),
                                       !.pc = "unlink"]]
                /\ UNCHANGED raised
        /\ UNCHANGED <<fileRepo, lock>>
        /\ Frame

\* asset.updated_at = datetime.utcnow() (update only);
\* self._write_json(asset_path, asset.to_dict())
write_json ==
    \E t \in Threads :
        /\ threads[t].pc = "write"
        /\ LET new == IF threads[t].op = "update"
                      THEN [threads[t].asset EXCEPT !.updated_at = utcnow]
                      ELSE threads[t].asset
               old_asset == threads[t].old
           IN /\ fileRepo' = PutFile(fileRepo, threads[t].id, to_dict(new))
              /\ IF threads[t].op = "update"
                    /\ old_asset.asset_type = new.asset_type
                    /\ old_asset.provider = new.provider
                    /\ old_asset.tags = new.tags
                 THEN Return(t, "none")
                 ELSE /\ threads' =
                           [threads EXCEPT
                              ![t] = [@ EXCEPT
                                        !.asset = new,
                                        !.remove = (threads[t].op = "update"),
                                        !.pc = "idx_type"]]
                      /\ UNCHANGED raised
        /\ UNCHANGED lock
        /\ Frame

\* asset_path.unlink()
unlink ==
    \E t \in Threads :
        /\ threads[t].pc = "unlink"
        /\ IF threads[t].id \notin DOMAIN fileRepo.files
           THEN Return(t, "RepositoryError") /\ UNCHANGED fileRepo
           ELSE /\ fileRepo' = Unlink(fileRepo, threads[t].id)
                /\ threads' = [threads EXCEPT ![t].remove = TRUE,
                                              ![t].pc = "idx_type"]
                /\ UNCHANGED raised
        /\ UNCHANGED lock
        /\ Frame

\* The asset _update_index was called with.
IndexedAsset(t) ==
    IF threads[t].op = "update" /\ threads[t].remove THEN threads[t].old
                                                     ELSE threads[t].asset

\* `with self._lock:` and the type index of _update_index.
update_type_index ==
    \E t \in Threads :
        /\ threads[t].pc = "idx_type"
        /\ lock = "free"
        /\ LET Step(r) ==
                 IF r.ok
                 THEN /\ fileRepo' = [fileRepo EXCEPT !.by_type = r.idx]
                      /\ lock' = t
                      /\ Goto(t, "idx_provider")
                 ELSE /\ UNCHANGED <<fileRepo, lock>>
                      /\ Return(t, "RepositoryError")
           IN Step(IndexStep(fileRepo.by_type, IndexedAsset(t).asset_type,
                             threads[t].id, threads[t].remove))
        /\ Frame

\* The provider index of _update_index.
update_provider_index ==
    \E t \in Threads :
        /\ threads[t].pc = "idx_provider"
        /\ lock = t
        /\ LET Step(r) ==
                 IF r.ok
                 THEN /\ fileRepo' = [fileRepo EXCEPT !.by_provider = r.idx]
                      /\ UNCHANGED lock
                      /\ Goto(t, "idx_tags")
                 ELSE /\ UNCHANGED fileRepo
                      /\ lock' = "free"
                      /\ Return(t, "RepositoryError")
           IN Step(IndexStep(fileRepo.by_provider, IndexedAsset(t).provider,
                             threads[t].id, threads[t].remove))
        /\ Frame

\* The tag index of _update_index and the end of the `with` block; update
\* goes on with _update_index(asset, remove=False).
update_tag_index ==
    \E t \in Threads :
        /\ threads[t].pc = "idx_tags"
        /\ lock = t
        /\ lock' = "free"
        /\ LET Step(r) ==
                 IF ~r.ok
                 THEN UNCHANGED fileRepo /\ Return(t, "RepositoryError")
                 ELSE /\ fileRepo' = [fileRepo EXCEPT !.by_tags = r.idx]
                      /\ IF threads[t].op = "update" /\ threads[t].remove
                         THEN /\ threads' = [threads EXCEPT
                                                ![t].remove = FALSE,
                                                ![t].pc = "idx_type"]
                              /\ UNCHANGED raised
                         ELSE Return(t, "none")
           IN Step(TagLoop(fileRepo.by_tags, IndexedAsset(t).tags,
                           DOMAIN IndexedAsset(t).tags, threads[t].id,
                           threads[t].remove))
        /\ Frame

InitThreads ==
    /\ Init
    /\ backend = "file"
    /\ kind = "asset"

NextThreads ==
    \/ thread_save
    \/ thread_update
    \/ thread_delete
    \/ path_exists
    \/ read_json
    \/ write_json
    \/ unlink
    \/ update_type_index
    \/ update_provider_index
    \/ update_tag_index

SpecThreads == InitThreads /\ [][NextThreads]_vars

(***************************************************************************)
(* _write_json and _read_json on the entity files, called from several     *)
(* threads.  save, update and delete call _write_json on the entity path   *)
(* without holding self._lock, so two calls for the same id write the same *)
(* destination, and with it the same temporary path, at once.              *)
(***************************************************************************)
WriteFrame ==
    UNCHANGED <<sqliteVars, subject, backend, kind, has_fallback, available, fileRepo, relRepo,
                sqlDb, graphDb, last, threads, lock, endpointVars,
                conn_failed>>

\* A write of `chunk` at the position `off` of the file object.
WriteAt(text, off, chunk) ==
    [i \in 1..(IF Len(text) > off THEN Len(text) ELSE off + 1) |->
        IF i = off + 1 THEN chunk
        ELSE IF i <= Len(text) THEN text[i] ELSE Hole]

\* open(temp_path, 'w'): creates the temporary file, or truncates the one
\* that is there.
open_temp ==
    /\ calls < MaxCalls
    /\ \E t \in Threads, path \in Paths :
          LET temp == with_suffix(path)
              fd == IF temp \in DOMAIN disk.dir THEN disk.dir[temp]
                                                 ELSE disk.next
          IN /\ writers[t].pc = "idle"
             /\ disk' = [dir |-> [n \in DOMAIN disk.dir \cup {temp} |->
                                    IF n = temp THEN fd ELSE disk.dir[n]],
                         data |-> [disk.data EXCEPT ![fd] = <<>>],
                         next |-> IF temp \in DOMAIN disk.dir
                                  THEN disk.next ELSE disk.next + 1]
             /\ writers' = [writers EXCEPT ![t] =
                              [pc |-> "dump", path |-> path, fd |-> fd,
                               off |-> 0]]
    /\ calls' = calls + 1
    /\ UNCHANGED <<reader, raised>>
    /\ WriteFrame

\* json.dump(data, f, ...) and the end of the with block: the file object
\* (of gzip.open or open) writes its buffer when it is full and when it is
\* closed.
flush ==
    /\ \E t \in Threads :
          /\ writers[t].pc = "dump"
          /\ disk' = [disk EXCEPT !.data[writers[t].fd] =
                        WriteAt(@, writers[t].off,
                                Content(t)[writers[t].off + 1])]
          /\ writers' = [writers EXCEPT
                           ![t].off = @ + 1,
                           ![t].pc = IF writers[t].off + 1 = MaxChunks
                                     THEN "move" ELSE "dump"]
    /\ UNCHANGED <<reader, raised, calls>>
    /\ WriteFrame

\* shutil.move(str(temp_path), str(path)): os.rename, which raises
\* FileNotFoundError when the temporary path is gone.
move ==
    /\ \E t \in Threads :
          LET temp == with_suffix(writers[t].path) IN
          /\ writers[t].pc = "move"
          /\ writers' = [writers EXCEPT ![t] = IdleWriter]
          /\ IF temp \in DOMAIN disk.dir
             THEN /\ disk' = [disk EXCEPT !.dir =
                                [n \in (DOMAIN disk.dir \cup {writers[t].path})
                                          \ {temp} |->
                                    IF n = writers[t].path
                                    THEN disk.dir[temp] ELSE disk.dir[n]]]
                  /\ UNCHANGED raised
             ELSE /\ raised' = TRUE
                  /\ UNCHANGED disk
    /\ UNCHANGED <<reader, calls>>
    /\ WriteFrame

\* _read_json: open(path, 'r')
read_open ==
    /\ reader.pc \in {"idle", "done"}
    /\ \E path \in Paths :
          /\ path \in DOMAIN disk.dir
          /\ reader' = [pc |-> "load", fd |-> disk.dir[path], got |-> <<>>]
    /\ UNCHANGED <<disk, writers, raised, calls>>
    /\ WriteFrame

\* _read_json: json.load(f) reads the file to its end.
read_load ==
    /\ reader.pc = "load"
    /\ reader' = [reader EXCEPT !.pc = "done", !.got = disk.data[reader.fd]]
    /\ UNCHANGED <<disk, writers, raised, calls>>
    /\ WriteFrame

InitWrite ==
    /\ Init
    /\ backend = "file"

NextWrite ==
    \/ open_temp
    \/ flush
    \/ move
    \/ read_open
    \/ read_load

SpecWrite == InitWrite /\ [][NextWrite]_vars

(***************************************************************************)
(* MemgraphAssetRepository and its endpoint.  The constructor has run      *)
(* with the endpoint answering or not; afterwards the endpoint can go away *)
(* and come back between the calls.  _available is assigned in __init__    *)
(* only.                                                                   *)
(***************************************************************************)
\* FileBasedAssetRepository.get_statistics: the dictionary it returns.
FileGetStatistics(repo) ==
    [exc |-> "none",
     ret |-> [total_assets |->
                 Cardinality(UNION {Range(repo.by_type[k]) :
                                      k \in DOMAIN repo.by_type}),
              by_type |-> [k \in DOMAIN repo.by_type |->
                              Len(repo.by_type[k])],
              by_provider |-> [k \in DOMAIN repo.by_provider |->
                                  Len(repo.by_provider[k])],
              unique_tags |-> Cardinality(DOMAIN repo.by_tags),
              storage_path |-> "base_path",
              compressed |-> TRUE,
              storage_size_bytes |-> "total_size",
              storage_size_mb |-> "total_size"]]

\* stats = self.fallback_repository.get_statistics()
\* stats["storage"]["fallback_active"] = True
FallbackStatistics(stats) ==
    IF stats.exc # "none" THEN stats
    ELSE IF "storage" \notin DOMAIN stats.ret
    THEN [exc |-> "KeyError", ret |-> None]
    ELSE [exc |-> "none",
          ret |-> [stats.ret EXCEPT !.storage.fallback_active = TRUE]]

\* MemgraphAssetRepository.get_statistics
GraphGetStatistics(g, fb) ==
    IF use_fallback THEN FallbackStatistics(FileGetStatistics(fb))
    ELSE IF ~reachable
    THEN IF has_fallback THEN FallbackStatistics(FileGetStatistics(fb))
         ELSE [exc |-> "RepositoryError", ret |-> None]
    ELSE [exc |-> "none",
          ret |-> [total_assets |-> Cardinality(DOMAIN g.nodes),
                   by_type |->
                      [k \in {g.nodes[id].asset_type : id \in DOMAIN g.nodes}
                         |-> Cardinality({id \in DOMAIN g.nodes :
                                            g.nodes[id].asset_type = k})],
                   by_provider |->
                      [k \in {g.nodes[id].provider : id \in DOMAIN g.nodes}
                         |-> Cardinality({id \in DOMAIN g.nodes :
                                            g.nodes[id].provider = k})],
                   risk_statistics |->
                      [high_risk_count |->
                          Cardinality({id \in DOMAIN g.nodes :
                                         g.nodes[id].risk_score > 70})],
                   storage |-> [type |-> "memgraph", connected |-> available,
                                fallback_active |-> FALSE]]]

\* A query has been made; `exc` is the exception that reached the caller.
Queried(op, exc) ==
    /\ ~ctor_raised
    /\ last' = [op |-> op, exc |-> exc, primary |-> primary_session,
                degraded |-> conn_failed, ret |-> ""]
    /\ conn_failed' = (conn_failed \/ connectivity_error)
    /\ raised' = (raised \/ exc # "none")
    /\ UNCHANGED <<sqliteVars, subject, backend, kind, has_fallback, available, fileRepo, relRepo,
                   sqlDb, graphDb, threads, lock, calls, writeVars,
                   endpointVars>>

\* The exception of find_by_id, find_all, ...: RepositoryError when the
\* primary fails and there is no fallback repository.
QueryExc ==
    IF connectivity_error /\ ~has_fallback THEN "RepositoryError" ELSE "none"

find_by_id ==
    /\ backend = "memgraph"
    /\ Queried("find_by_id", QueryExc)

\* find_by_type(asset_type): return self.find_all({"asset_type": asset_type})
find_by_type ==
    /\ backend = "memgraph"
    /\ Queried("find_by_type", QueryExc)

\* find_by_provider(provider): return self.find_all({"provider": provider})
find_by_provider ==
    /\ backend = "memgraph"
    /\ Queried("find_by_provider", QueryExc)

get_statistics ==
    /\ backend = "memgraph"
    /\ Queried("get_statistics", GraphGetStatistics(graphDb, fileRepo).exc)

\* The endpoint stops answering, or answers again.
connectivity ==
    /\ reachable' = ~reachable
    /\ UNCHANGED <<sqliteVars, subject, backend, kind, has_fallback, available, fileRepo, relRepo,
                   sqlDb, graphDb, raised, last, threads, lock, calls,
                   writeVars, ctor_reachable, conn_failed>>

\* The constructor has run.  MemgraphConnection(...) raises when the neo4j
\* package is missing or the driver rejects the configuration; an endpoint
\* that does not answer makes session.run raise inside _init_database,
\* which logs the exception and returns.
InitConn ==
    /\ backend = "memgraph"
    /\ kind = "asset"
    /\ has_fallback \in BOOLEAN
    /\ ctor_reachable \in BOOLEAN
    /\ available \in BOOLEAN
    /\ reachable = ctor_reachable
    /\ foreign_keys = TRUE
    /\ InitStores

NextConn ==
    \/ connectivity
    \/ save
    \/ delete
    \/ find_by_id
    \/ find_by_type
    \/ find_by_provider
    \/ get_statistics

SpecConn == InitConn /\ [][NextConn]_vars

(***************************************************************************)
(* Queries of the configured backend, on the stores `st` (the current      *)
(* ones, or those a call leaves behind).                                   *)
(***************************************************************************)
Now == [file |-> fileRepo, rel |-> relRepo, sql |-> sqlDb, graph |-> graphDb]

AssetFindById(st, asset_id) ==
    CASE backend = "file" -> FileFindById(st.file, asset_id)
      [] backend = "sqlite" -> SqlFindById(st.sql, asset_id)
      [] OTHER -> GraphFindById(st.graph, st.file, asset_id)

AssetExists(st, asset_id) ==
    CASE backend = "file" -> FileExists(st.file, asset_id)
      [] backend = "sqlite" -> asset_id \in DOMAIN st.sql.assets
      [] OTHER -> GraphExists(st.graph, st.file, asset_id)

AssetFindAll(st, filters) ==
    CASE backend = "file" -> FileFindAll(st.file, filters)
      [] backend = "sqlite" -> SqlFindAll(st.sql, filters)
      [] OTHER -> GraphFindAll(st.graph, st.file, filters)

AssetCount(st, filters) ==
    CASE backend = "file" -> FileCount(st.file, filters)
      [] backend = "sqlite" -> SqlCount(st.sql, filters)
      [] OTHER -> GraphCount(st.graph, st.file, filters)

\* find_by_type / find_by_provider / find_by_tags, as the ids of the
\* returned assets.
AssetFindByType(st, asset_type) ==
    IF backend = "file" THEN FileFindByType(st.file, asset_type)
    ELSE {a.asset_id :
            a \in AssetFindAll(st, [k \in {"asset_type"} |-> asset_type])}

AssetFindByProvider(st, provider) ==
    IF backend = "file" THEN FileFindByProvider(st.file, provider)
    ELSE {a.asset_id :
            a \in AssetFindAll(st, [k \in {"provider"} |-> provider])}

AssetFindByTags(st, tags) ==
    CASE backend = "file" -> FileFindByTags(st.file, tags)
      [] backend = "sqlite" -> SqlFindByTags(st.sql, tags)
      [] OTHER -> GraphFindByTags(st.graph, st.file, tags)

\* The values find_by_id of the relationship repository can return.
RelFindById(st, relationship_id) ==
    CASE backend = "file" -> {FileRelFindById(st.rel, relationship_id)}
      [] backend = "sqlite" -> {SqlRelFindById(st.sql, relationship_id)}
      [] OTHER -> GraphRelFindById(st.graph, st.rel, relationship_id)

(***************************************************************************)
(* Properties                                                              *)
(***************************************************************************)
NoDuplicates(l) == \A i, j \in DOMAIN l : l[i] = l[j] => i = j

RenderedTags(d) == {tag_str(k, d.tags[k]) : k \in DOMAIN d.tags}

\* An index lists id under key K exactly when the entity file of id exists
\* and Keys(file) contains K, and lists no id twice under one key.
IndexAgrees(idx, files, Keys(_)) ==
    /\ \A K \in DOMAIN idx :
          /\ NoDuplicates(idx[K])
          /\ \A id \in Range(idx[K]) :
                id \in DOMAIN files /\ K \in Keys(files[id])
    /\ \A id \in DOMAIN files :
          \A K \in Keys(files[id]) : K \in DOMAIN idx /\ id \in Range(idx[K])

TypeKeys(d) == {d.asset_type}
ProviderKeys(d) == {d.provider}

IndicesAgree(repo) ==
    /\ IndexAgrees(repo.by_type, repo.files, TypeKeys)
    /\ IndexAgrees(repo.by_provider, repo.files, ProviderKeys)
    /\ IndexAgrees(repo.by_tags, repo.files, RenderedTags)

\* C1: in the file-backed asset store, as long as every call made so far
\* has returned without raising, the by_type / by_provider / by_tags
\* indices list an id under a key exactly when its entity file exists and
\* carries that key, and never twice under one key.
C1_IndicesAgreeWithFiles ==
    (backend = "file" /\ kind = "asset" /\ ~raised) => IndicesAgree(fileRepo)

AssetFields ==
    { "asset_id", "asset_type", "provider", "name", "properties", "tags",
      "metadata", "status", "health", "compliance_status", "risk_score",
      "estimated_cost", "created_at", "updated_at", "discovered_at" }

\* C2: in each backend, for every valid asset whose id is not stored, when
\* save(asset) returns, find_by_id(asset_id) returns an asset equal to the
\* saved one in every field.
C2_SaveFindByIdRoundTrip ==
    kind = "asset" =>
        \A asset \in CallAssets :
            (/\ validate(asset)
             /\ ~AssetExists(Now, asset.asset_id)
             /\ SaveOut(asset).exc = "none")
            => LET found == AssetFindById(SaveOut(asset), asset.asset_id)
               IN /\ found # None
                  /\ \A f \in AssetFields : found[f] = asset[f]

\* C3: in each relationship repository, when save(relationship) returns
\* without raising, find_by_id(relationship_id) returns a relationship with
\* the same relationship_id, source_id, target_id and relationship_type,
\* whether or not the two assets have been saved.
C3_RelationshipSaveFindById ==
    kind = "relationship" =>
        \A r \in CallRelationships :
            RelSaveOut(r).exc = "none"
            => \A found \in RelFindById(RelSaveOut(r), r.relationship_id) :
                  /\ found # None
                  /\ found.relationship_id = r.relationship_id
                  /\ found.source_id = r.source_id
                  /\ found.target_id = r.target_id
                  /\ found.relationship_type = r.relationship_type

\* A relationship with the (source_id, target_id, relationship_type) of r
\* is held by the store the repository reads from.
KeyStored(st, r) ==
    CASE backend = "file" ->
            \E x \in FileRelAll(st.rel) : RelKey(x) = RelKey(r)
      [] backend = "sqlite" ->
            \E x \in SqlRelAll(st.sql) : RelKey(x) = RelKey(r)
      [] OTHER ->
            IF use_fallback
            THEN \E x \in FileRelAll(st.rel) : RelKey(x) = RelKey(r)
            ELSE \E x \in GraphRelAll(st.graph) : RelKey(x) = RelKey(r)

\* C4: in every backend, save of an asset whose asset_id is stored raises
\* DuplicateAssetError, and save of a relationship whose (source_id,
\* target_id, relationship_type) is stored raises
\* DuplicateRelationshipError.
C4_DuplicateErrorKind ==
    /\ kind = "asset" =>
          \A asset \in CallAssets :
              AssetExists(Now, asset.asset_id)
              => SaveOut(asset).exc = "DuplicateAssetError"
    /\ kind = "relationship" =>
          \A r \in CallRelationships :
              KeyStored(Now, r)
              => RelSaveOut(r).exc = "DuplicateRelationshipError"

\* No two stored relationships share (source_id, target_id,
\* relationship_type).
KeysUnique(st) ==
    CASE backend = "file" ->
            \A i, j \in DOMAIN st.rel.files :
                RelKey(st.rel.files[i]) = RelKey(st.rel.files[j]) => i = j
      [] backend = "sqlite" ->
            \A i, j \in DOMAIN st.sql.relationships :
                RelKey(st.sql.relationships[i]) = RelKey(st.sql.relationships[j])
                => i = j
      [] OTHER ->
            IF use_fallback
            THEN \A i, j \in DOMAIN st.rel.files :
                    RelKey(st.rel.files[i]) = RelKey(st.rel.files[j]) => i = j
            ELSE \A i, j \in DOMAIN st.graph.edges :
                    RelKey(st.graph.edges[i]) = RelKey(st.graph.edges[j])
                    => i = j

\* C5: in each relationship repository, after any sequence of save,
\* save_batch, update, delete and delete_by_asset calls, no two stored
\* relationships have the same (source_id, target_id, relationship_type).
C5_RelationshipKeyUnique ==
    kind = "relationship" => KeysUnique(Now)

\* The id is listed under some key of an index of the file-backed store.
Indexed(repo, id) ==
    \/ \E K \in DOMAIN repo.by_type : id \in Range(repo.by_type[K])
    \/ \E K \in DOMAIN repo.by_provider : id \in Range(repo.by_provider[K])
    \/ \E K \in DOMAIN repo.by_tags : id \in Range(repo.by_tags[K])

\* C6: for every stored asset id, when delete(id) returns, find_by_id(id)
\* returns None, exists(id) is false, and in the file-backed store the id
\* is listed under no key of by_type, by_provider or by_tags.
C6_DeletedIsGone ==
    AssetCallsEnabled =>
        \A id \in AssetIds :
            (AssetExists(Now, id) /\ DeleteOut(id).exc = "none")
            => /\ AssetFindById(DeleteOut(id), id) = None
               /\ ~AssetExists(DeleteOut(id), id)
               /\ backend = "file" => ~Indexed(DeleteOut(id).file, id)

\* The (key, value) pairs of a tag map.
TagPairs(tags) == {<<k, tags[k]>> : k \in DOMAIN tags}
PairMap(pair) == [k \in {pair[1]} |-> pair[2]]

\* C7: for a stored asset, when update returns, a changed asset_type /
\* provider moves the asset from the find_by_type / find_by_provider result
\* of the old value to that of the new value, and for every tag pair that
\* was removed or added (a changed value is both), find_by_tags on the old
\* pair no longer returns the asset and find_by_tags on the new pair does.
C7_UpdateMovesBetweenQueries ==
    kind = "asset" =>
        \A asset \in CallAssets :
            (AssetExists(Now, asset.asset_id) /\ UpdateOut(asset).exc = "none")
            => LET old == AssetFindById(Now, asset.asset_id)
                   out == UpdateOut(asset)
                   id == asset.asset_id
               IN /\ old.asset_type # asset.asset_type
                     => /\ id \notin AssetFindByType(out, old.asset_type)
                        /\ id \in AssetFindByType(out, asset.asset_type)
                  /\ old.provider # asset.provider
                     => /\ id \notin AssetFindByProvider(out, old.provider)
                        /\ id \in AssetFindByProvider(out, asset.provider)
                  /\ \A pair \in TagPairs(old.tags) \ TagPairs(asset.tags) :
                        id \notin AssetFindByTags(out, PairMap(pair))
                  /\ \A pair \in TagPairs(asset.tags) \ TagPairs(old.tags) :
                        id \in AssetFindByTags(out, PairMap(pair))

\* Filter sets: any combination of the five filters.
Optional(name, values) == {EmptyMap} \cup {[k \in {name} |-> v] : v \in values}
Merge(f, g) ==
    [k \in DOMAIN f \cup DOMAIN g |-> IF k \in DOMAIN f THEN f[k] ELSE g[k]]
FilterSets ==
    {Merge(t, Merge(p, Merge(s, Merge(lo, hi)))) :
        t \in Optional("asset_type", AssetTypes),
        p \in Optional("provider", Providers),
        s \in Optional("status", Statuses),
        lo \in Optional("min_risk_score", {50}),
        hi \in Optional("max_risk_score", {50})}

\* C8: in every asset backend and for every filter set, count(filters)
\* equals the number of assets find_all(filters) returns on the same store.
C8_CountEqualsFindAll ==
    kind = "asset" =>
        \A filters \in FilterSets :
            AssetCount(Now, filters) = Cardinality(AssetFindAll(Now, filters))

DistinctIds(assets) ==
    \A i, j \in DOMAIN assets : assets[i].asset_id = assets[j].asset_id => i = j

\* C9: for every batch of valid assets with distinct ids, save_batch
\* returns, without raising, exactly the assets whose ids were not stored,
\* and count() grows by their number.
C9_SaveBatchSkipsStored ==
    kind = "asset" =>
        \A assets \in SeqsUpTo(BatchAssets, MaxBatch) :
            (DistinctIds(assets) /\ \A i \in DOMAIN assets : validate(assets[i]))
            => LET out == SaveBatchOut(assets)
                   new == {assets[i].asset_id : i \in
                              {j \in DOMAIN assets :
                                  ~AssetExists(Now, assets[j].asset_id)}}
               IN /\ out.exc = "none"
                  /\ Len(out.ret) = Cardinality(new)
                  /\ Range(out.ret) = new
                  /\ AssetCount(out, EmptyMap)
                        = AssetCount(Now, EmptyMap) + Cardinality(new)

\* C10: in every backend, when at least one item of a batch can be saved
\* (updated) on its own, save_batch (update_batch) returns without raising
\* and the returned list contains that item, wherever the failing items
\* stand in the batch.
C10_BatchRaisesOnlyIfNoneSucceeded ==
    kind = "asset" =>
        \A assets \in SeqsUpTo(BatchAssets, MaxBatch) :
            \A i \in DOMAIN assets :
                /\ SaveOut(assets[i]).exc = "none"
                   => /\ SaveBatchOut(assets).exc = "none"
                      /\ assets[i].asset_id \in Range(SaveBatchOut(assets).ret)
                /\ UpdateOut(assets[i]).exc = "none"
                   => /\ UpdateBatchOut(assets).exc = "none"
                      /\ assets[i].asset_id
                            \in Range(UpdateBatchOut(assets).ret)


\* C11: in the file-backed asset store, when a single save, update or
\* delete call raises, the entity files and the three index files are
\* exactly as they were before the call.
C11_RaisingCallLeavesStore ==
    (backend = "file" /\ kind = "asset") =>
        /\ \A asset \in CallAssets :
              /\ SaveOut(asset).exc # "none" => SaveOut(asset).file = fileRepo
              /\ UpdateOut(asset).exc # "none"
                    => UpdateOut(asset).file = fileRepo
        /\ \A asset_id \in AssetIds :
              DeleteOut(asset_id).exc # "none"
                  => DeleteOut(asset_id).file = fileRepo


\* What a reader thread can observe of the file-backed store at one
\* instant, through find_by_id, find_by_type, find_by_provider and
\* find_by_tags.
ReaderView(repo) ==
    [ find_by_id |-> [id \in AssetIds |-> FileFindById(repo, id)],
      find_by_type |-> [ty \in AssetTypes |-> FileFindByType(repo, ty)],
      find_by_provider |-> [p \in Providers |-> FileFindByProvider(repo, p)],
      find_by_tags |-> [g \in TagMaps |-> FileFindByTags(repo, g)] ]

\* The store the call of thread t leaves when it runs on its own.
ThreadPost(t) ==
    CASE threads[t].op = "save" ->
            FileSave(threads[t].pre, threads[t].asset).repo
      [] threads[t].op = "update" ->
            FileUpdate(threads[t].pre, threads[t].asset).repo
      [] OTHER -> FileDelete(threads[t].pre, threads[t].id).repo

\* C12: in the file-backed store, while one save, update or delete runs
\* and no other call interleaves, a reader sees through find_by_id,
\* find_by_type, find_by_provider and find_by_tags either the complete
\* store of before the call or the complete store of after it.
C12_ReaderSeesNoPartialMutation ==
    \A t \in Threads :
        (threads[t].op # "idle" /\ threads[t].alone)
            => \/ ReaderView(fileRepo) = ReaderView(threads[t].pre)
               \/ ReaderView(fileRepo) = ReaderView(ThreadPost(t))

\* C14: in the file-backed asset store, once all the save, update and
\* delete calls issued by the threads have returned (none of them raised),
\* every id listed in an index has an entity file and every entity file's
\* id is listed under its type, its provider and its tags.
C14_ThreadsLeaveIndicesAgreeing ==
    (AllIdle /\ ~raised) =>
        \A id \in AssetIds :
            /\ Indexed(fileRepo, id) => id \in DOMAIN fileRepo.files
            /\ id \in DOMAIN fileRepo.files =>
                  LET d == fileRepo.files[id] IN
                  /\ d.asset_type \in DOMAIN fileRepo.by_type
                  /\ id \in Range(fileRepo.by_type[d.asset_type])
                  /\ d.provider \in DOMAIN fileRepo.by_provider
                  /\ id \in Range(fileRepo.by_provider[d.provider])
                  /\ \A K \in RenderedTags(d) :
                        /\ K \in DOMAIN fileRepo.by_tags
                        /\ id \in Range(fileRepo.by_tags[K])


\* The complete texts: the one on disk at the start and the one each
\* writer dumps.
CompleteTexts == {Content("old")} \cup {Content(t) : t \in Threads}

\* C13: in the file-backed store, under any interleaving of readers and
\* writers of one process, two writers of the same destination path
\* included, what a read of a destination file returns is the complete
\* text of an earlier write or of a new write, never a partly written file.
C13_ReadSeesCompleteWrite ==
    reader.pc = "done" => reader.got \in CompleteTexts


\* C15: in the graph-backed store with a fallback, once an operation of the
\* instance has got a connectivity error from the primary, that operation
\* is served by the fallback, and every later operation of the instance is
\* served by the fallback without the primary being contacted again.
C15_NoPrimaryAfterConnectivityError ==
    (backend = "memgraph" /\ has_fallback) =>
        /\ connectivity_error =>
              \A asset \in CallAssets :
                  /\ SaveOut(asset).graph = graphDb
                  /\ SaveOut(asset).file = FileSave(fileRepo, asset).repo
        /\ last.degraded => ~last.primary

\* C16: a graph-backed asset store constructed with an unreachable endpoint
\* and a file fallback: the constructor does not raise, and while the
\* endpoint stays away, for every valid asset not stored yet, save(asset)
\* returns, is served by the fallback, and find_by_id(asset_id) then
\* returns that asset.
C16_DegradedSaveFindById ==
    (backend = "memgraph" /\ has_fallback /\ ~ctor_reachable /\ ~reachable) =>
        /\ ~ctor_raised
        /\ \A asset \in CallAssets :
              (/\ validate(asset)
               /\ asset.asset_id \notin DOMAIN fileRepo.files
               /\ asset.asset_id \notin DOMAIN graphDb.nodes)
              => LET Check(out) ==
                         /\ out.exc = "none"
                         /\ out.graph = graphDb
                         /\ asset.asset_id \in DOMAIN out.file.files
                         /\ GraphFindById(out.graph, out.file, asset.asset_id)
                               = asset
                 IN Check(SaveOut(asset))

\* C17: a graph-backed asset store running on its file fallback:
\* get_statistics returns, and its total_assets, by_type and by_provider are
\* the counts of the assets the fallback holds.
C17_DegradedStatistics ==
    (backend = "memgraph" /\ has_fallback /\ (~available \/ ~reachable)) =>
        LET Check(stats) ==
                /\ stats.exc = "none"
                /\ stats.ret.total_assets = Cardinality(DOMAIN fileRepo.files)
                /\ \A ty \in DOMAIN stats.ret.by_type :
                      stats.ret.by_type[ty] =
                          Cardinality({id \in DOMAIN fileRepo.files :
                                         fileRepo.files[id].asset_type = ty})
                /\ \A p \in DOMAIN stats.ret.by_provider :
                      stats.ret.by_provider[p] =
                          Cardinality({id \in DOMAIN fileRepo.files :
                                         fileRepo.files[id].provider = p})
        IN Check(GraphGetStatistics(graphDb, fileRepo))

\* C18: a graph-backed store with a fallback whose construction failed to
\* connect: the availability flag is false from construction on, and every
\* operation made on the instance goes to the fallback without a session of
\* the primary being opened.
C18_FailedConstructionStaysOnFallback ==
    (backend = "memgraph" /\ has_fallback /\ ~ctor_reachable) =>
        /\ ~available
        /\ last.op # "none" => ~last.primary

\* C19: a graph-backed store without a usable fallback: when the connection
\* fails during construction the constructor raises RepositoryError, and a
\* later save whose primary call fails raises RepositoryError and stores
\* nothing anywhere.
C19_NoFallbackIsFatal ==
    (backend = "memgraph" /\ ~has_fallback) =>
        /\ ~ctor_reachable => ctor_raised
        /\ ~ctor_raised =>
              \A asset \in CallAssets :
                  (~reachable \/ asset.asset_id \in DOMAIN graphDb.nodes)
                  => LET Check(out) ==
                             /\ out.exc = "RepositoryError"
                             /\ out.graph = graphDb
                             /\ out.file = fileRepo
                     IN Check(SaveOut(asset))

\* C20: a graph-backed store with a fallback and a reachable primary: save
\* of an asset whose id is in the primary, or of a relationship whose edge
\* (same type, same endpoints) is in the primary, raises and stores nothing
\* in the primary or in the fallback; no save writes to the fallback.
C20_DuplicateRejectedNotRerouted ==
    (backend = "memgraph" /\ has_fallback /\ available /\ reachable) =>
        /\ \A asset \in CallAssets :
              LET Check(out) ==
                      /\ out.file = fileRepo
                      /\ asset.asset_id \in DOMAIN graphDb.nodes
                            => out.exc # "none" /\ out.graph = graphDb
              IN Check(SaveOut(asset))
        /\ \A r \in CallRelationships :
              LET Check(out) ==
                      /\ out.rel = relRepo
                      /\ GraphEdgeExists(graphDb, r)
                            => out.exc # "none" /\ out.graph = graphDb
              IN Check(RelSaveOut(r))


(***************************************************************************)
(* The SQLite repositories as the application configures them.             *)
(* SQLiteConnection.__init__ takes `pragmas or {...defaults...}`: the      *)
(* defaults, which hold foreign_keys = ON, apply only when the caller      *)
(* passes no pragmas; a configuration that tunes any pragma replaces the   *)
(* whole dictionary (cli/utils.py hands connection_config.get('pragmas')   *)
(* to both repositories), and SQLite then leaves foreign keys unenforced.  *)
(***************************************************************************)
InitSql ==
    /\ backend = "sqlite"
    /\ kind \in {"asset", "relationship"}
    /\ has_fallback = FALSE
    /\ available = TRUE
    /\ reachable = TRUE
    /\ ctor_reachable = TRUE
    /\ foreign_keys \in BOOLEAN
    /\ InitStores

SpecSql == InitSql /\ [][Next]_vars

\* C21: in the relational store, saving a relationship one of whose
\* endpoints is not a stored asset raises RepositoryError and stores
\* nothing; every stored relationship has stored assets at both ends and
\* every tag row belongs to a stored asset.
C21_RelationshipEndpointsStored ==
    backend = "sqlite" =>
        /\ \A r \in CallRelationships :
              ( /\ r.relationship_id \notin DOMAIN sqlDb.relationships
                /\ \/ r.source_id \notin DOMAIN sqlDb.assets
                   \/ r.target_id \notin DOMAIN sqlDb.assets )
              => LET Rejected(out) ==
                         out.exc = "RepositoryError" /\ out.db = sqlDb
                 IN  Rejected(SqlRelSave(sqlDb, r))
        /\ \A x \in DOMAIN sqlDb.relationships :
              /\ sqlDb.relationships[x].source_id \in DOMAIN sqlDb.assets
              /\ sqlDb.relationships[x].target_id \in DOMAIN sqlDb.assets
        /\ \A t \in sqlDb.asset_tags : t.asset_id \in DOMAIN sqlDb.assets


\* C22: in the relational store the asset_tags rows of every stored asset
\* are exactly the (key, value) pairs of the tags map serialized in its
\* assets row, and asset_tags holds no row of an asset that is not stored,
\* whatever calls have returned or raised.
C22_TagRowsMatchAssetRow ==
    backend = "sqlite" =>
        /\ \A id \in DOMAIN sqlDb.assets :
              {<<t.tag_key, t.tag_value>> :
                   t \in {x \in sqlDb.asset_tags : x.asset_id = id}}
              = LET tags == JsonLoadTags(sqlDb.assets[id].tags)
                IN  {<<k, tags[k]>> : k \in DOMAIN tags}
        /\ \A t \in sqlDb.asset_tags : t.asset_id \in DOMAIN sqlDb.assets


(***************************************************************************)
(* A FileBasedAssetRepository and a SQLiteAssetRepository that receive the *)
(* same calls, to compare what the two backends do with the same batch.    *)
(***************************************************************************)
BothCalled(op, f, s) ==
    /\ fileRepo' = f.repo
    /\ sqlDb' = s.db
    /\ last' = [op |-> op, exc |-> s.exc, primary |-> FALSE,
                 degraded |-> FALSE, ret |-> ""]
    /\ raised' = (raised \/ f.exc # "none" \/ s.exc # "none")
    /\ UNCHANGED <<sqliteVars, subject, backend, kind, has_fallback, available>>
    /\ UNCHANGED <<relRepo, graphDb, conn_failed, threads, lock, calls>>
    /\ UNCHANGED <<writeVars, endpointVars>>

both_save ==
    /\ kind = "asset"
    /\ \E asset \in Assets :
          BothCalled("save", FileSave(fileRepo, asset), SqlSave(sqlDb, asset))

both_delete ==
    /\ kind = "asset"
    /\ \E asset_id \in AssetIds :
          BothCalled("delete", FileDelete(fileRepo, asset_id),
                     SqlDelete(sqlDb, asset_id))

both_save_batch ==
    /\ kind = "asset"
    /\ \E assets \in SeqsUpTo(BatchAssets, MaxBatch) :
          BothCalled("save_batch", FileSaveBatch(fileRepo, assets),
                     SqlSaveBatch(sqlDb, assets))

both_update_batch ==
    /\ kind = "asset"
    /\ \E assets \in SeqsUpTo(BatchAssets, MaxBatch) :
          BothCalled("update_batch", FileUpdateBatch(fileRepo, assets),
                     SqlUpdateBatch(sqlDb, assets))

InitBoth ==
    /\ backend = "sqlite"
    /\ kind = "asset"
    /\ has_fallback = FALSE
    /\ available = TRUE
    /\ reachable = TRUE
    /\ ctor_reachable = TRUE
    /\ foreign_keys = TRUE
    /\ InitStores

NextBoth ==
    \/ both_save
    \/ both_delete
    \/ both_save_batch
    \/ both_update_batch

SpecBoth == InitBoth /\ [][NextBoth]_vars

\* The two stores hold the same assets.
SameAssets ==
    /\ DOMAIN fileRepo.files = DOMAIN sqlDb.assets
    /\ \A id \in DOMAIN sqlDb.assets :
          FileFindById(fileRepo, id) = SqlFindById(sqlDb, id)

\* C23: from stores holding the same assets, save_batch and update_batch
\* of the relational store and of the file-backed store either both raise
\* or both return the same asset ids, and the stores hold the same ids
\* afterwards; batches of duplicates only and of unknown ids only included.
C23_BatchOutcomesAgree ==
    SameAssets =>
        \A assets \in SeqsUpTo(BatchAssets, MaxBatch) :
            LET Agree(f, s) ==
                    /\ (f.exc = "none") = (s.exc = "none")
                    /\ f.exc = "none" => f.ret = s.ret
                    /\ DOMAIN f.repo.files = DOMAIN s.db.assets
            IN  /\ Agree(FileSaveBatch(fileRepo, assets),
                         SqlSaveBatch(sqlDb, assets))
                /\ Agree(FileUpdateBatch(fileRepo, assets),
                         SqlUpdateBatch(sqlDb, assets))


(***************************************************************************)
(* SQLiteConnection.get_connection and MemgraphConnection.get_session,     *)
(* statement by statement, around the body of a single-entity operation.   *)
(* sqlDb is the database file (what is committed), conn.work what the open *)
(* connection sees.  A statement can fail with sqlite3.OperationalError    *)
(* (database is locked, disk I/O error) whatever its arguments.            *)
(***************************************************************************)
TxAssets ==
    { BaseAsset("a1"),
      [BaseAsset("a1") EXCEPT !.tags = [k \in {"e"} |-> "p=q"]],
      [BaseAsset("a1") EXCEPT !.properties =
          [k \in {"k"} |-> [py |-> "datetime", v |-> "x"]]],
      [BaseAsset("a2") EXCEPT !.tags = [k \in {"e"} |-> "p=q"]] }

TxFrame ==
    /\ UNCHANGED <<foreign_keys, subject, backend, kind, has_fallback, available>>
    /\ UNCHANGED <<fileRepo, relRepo, conn_failed, threads, lock, calls>>
    /\ UNCHANGED <<writeVars, endpointVars>>

\* The body raised `exc`: control goes to the except clause.
Except(exc) == [conn EXCEPT !.pc = "except", !.exc = exc]

\* conn = sqlite3.connect(self.db_path, timeout=30.0)
connect ==
    /\ backend = "sqlite"
    /\ conn.pc = "idle"
    /\ \E op \in {"save", "update", "delete"}, asset \in TxAssets :
          conn' = [pc |-> "pragmas", open |-> TRUE, op |-> op,
                   asset |-> asset, work |-> sqlDb, pre |-> sqlDb,
                   wrote |-> FALSE, exc |-> "none", end |-> "none"]
    /\ UNCHANGED <<sqlDb, graphDb, last, raised>>
    /\ TxFrame

\* for pragma, value in self.pragmas.items(): conn.execute(...); yield conn
pragmas ==
    /\ conn.pc = "pragmas"
    /\ \E ok \in BOOLEAN :
          conn' = IF ~ok THEN Except("RepositoryError")
                  ELSE [conn EXCEPT !.pc = IF conn.op = "delete" THEN "row"
                                           ELSE "select"]
    /\ UNCHANGED <<sqlDb, graphDb, last, raised>>
    /\ TxFrame

\* SELECT 1 FROM assets WHERE asset_id = ? of save and update, and
\* asset.updated_at = datetime.utcnow() of update.
select ==
    /\ conn.pc = "select"
    /\ LET existing == conn.asset.asset_id \in DOMAIN conn.work.assets IN
       conn' = IF conn.op = "save" /\ existing
               THEN Except("DuplicateAssetError")
               ELSE IF conn.op = "update" /\ ~existing
               THEN Except("AssetNotFoundError")
               ELSE IF conn.op = "update"
               THEN [conn EXCEPT !.pc = "row", !.asset.updated_at = utcnow]
               ELSE [conn EXCEPT !.pc = "row"]
    /\ UNCHANGED <<sqlDb, graphDb, last, raised>>
    /\ TxFrame

\* _asset_to_row and INSERT INTO assets / UPDATE assets; DELETE FROM assets
\* of delete.
write_row ==
    /\ conn.pc = "row"
    /\ \E ok \in BOOLEAN :
          conn' =
            IF conn.op = "delete"
            THEN IF ok
                 THEN [conn EXCEPT
                          !.pc = "commit",
                          !.wrote = conn.asset.asset_id \in DOMAIN conn.work.assets,
                          !.work = SqlDeleteRows(@, {conn.asset.asset_id})]
                 ELSE Except("RepositoryError")
            ELSE IF RowRaises(conn.asset) THEN Except("TypeError")
            ELSE IF ~ok THEN Except("RepositoryError")
            ELSE [conn EXCEPT
                     !.pc = "tags", !.wrote = TRUE,
                     !.work.assets =
                         [k \in DOMAIN @ \cup {conn.asset.asset_id} |->
                             IF k = conn.asset.asset_id
                             THEN asset_to_row(conn.asset) ELSE @[k]]]
    /\ UNCHANGED <<sqlDb, graphDb, last, raised>>
    /\ TxFrame

\* DELETE FROM asset_tags of update, then INSERT INTO asset_tags for each
\* tag; a failing INSERT leaves the statements before it in the
\* transaction.
write_tags ==
    /\ conn.pc = "tags"
    /\ LET cleared ==
              IF conn.op = "update"
              THEN {t \in conn.work.asset_tags :
                        t.asset_id # conn.asset.asset_id}
              ELSE conn.work.asset_tags
       IN \E ok \in BOOLEAN :
             conn' =
               IF ok /\ ~SqlTagConflict([conn.work EXCEPT !.asset_tags = cleared],
                                        conn.asset)
               THEN [conn EXCEPT !.pc = "commit",
                        !.work.asset_tags = cleared \cup TagRows(conn.asset)]
               ELSE [conn EXCEPT !.pc = "except", !.exc = "RepositoryError",
                        !.work.asset_tags = cleared]
    /\ UNCHANGED <<sqlDb, graphDb, last, raised>>
    /\ TxFrame

\* conn.commit() after the body has completed.
commit ==
    /\ conn.pc = "commit"
    /\ \E ok \in BOOLEAN :
          IF ok
          THEN /\ sqlDb' = conn.work
               /\ conn' = [conn EXCEPT !.pc = "close", !.end = "committed"]
          ELSE /\ sqlDb' = sqlDb
               /\ conn' = Except("RepositoryError")
    /\ UNCHANGED <<graphDb, last, raised>>
    /\ TxFrame

\* A bug to compare with: the except clause that commits what the body
\* wrote before it raised.
rollback_commits ==
    /\ conn.pc = "except"
    /\ sqlDb' = conn.work
    /\ conn' = [conn EXCEPT !.pc = "close", !.end = "rolled_back"]
    /\ UNCHANGED <<graphDb, last, raised>>
    /\ TxFrame

\* except Exception: conn.rollback(); raise
rollback ==
    /\ conn.pc = "except"
    /\ sqlDb' = sqlDb
    /\ conn' = [conn EXCEPT !.pc = "close", !.end = "rolled_back",
                            !.work = sqlDb]
    /\ UNCHANGED <<graphDb, last, raised>>
    /\ TxFrame

\* finally: conn.close(); the operation returns or raises to its caller.
close ==
    /\ conn.pc = "close"
    /\ conn' = [conn EXCEPT !.pc = "idle", !.open = FALSE]
    /\ last' = [op |-> conn.op, exc |-> conn.exc, primary |-> FALSE,
                 degraded |-> FALSE, ret |-> ""]
    /\ raised' = (raised \/ conn.exc # "none")
    /\ UNCHANGED <<sqlDb, graphDb>>
    /\ TxFrame

\* session = self.driver.session(database=self.database)
session ==
    /\ backend = "memgraph"
    /\ conn.pc = "idle"
    /\ \E op \in {"save", "delete"}, asset \in TxAssets :
          conn' = [NoConnection EXCEPT !.pc = "run", !.open = TRUE,
                                       !.op = op, !.asset = asset]
    /\ UNCHANGED <<sqlDb, graphDb, last, raised>>
    /\ TxFrame

\* The body of save / delete: session.run(...) in an auto-commit
\* transaction, which raises or returns.
run ==
    /\ conn.pc = "run"
    /\ LET Ran(out) ==
               /\ graphDb' = out.g
               /\ conn' = [conn EXCEPT !.pc = "finally", !.exc = out.exc]
       IN IF conn.op = "save"
          THEN Ran(GraphSave(graphDb, fileRepo, conn.asset))
          ELSE Ran(GraphDelete(graphDb, fileRepo, conn.asset.asset_id))
    /\ UNCHANGED <<sqlDb, last, raised>>
    /\ TxFrame

\* finally: session.close()
session_close ==
    /\ conn.pc = "finally"
    /\ conn' = [conn EXCEPT !.pc = "idle", !.open = FALSE]
    /\ last' = [op |-> conn.op, exc |-> conn.exc, primary |-> TRUE,
                 degraded |-> FALSE, ret |-> ""]
    /\ raised' = (raised \/ conn.exc # "none")
    /\ UNCHANGED <<sqlDb, graphDb>>
    /\ TxFrame

InitTx ==
    /\ backend \in {"sqlite", "memgraph"}
    /\ kind = "asset"
    /\ has_fallback = FALSE
    /\ available = TRUE
    /\ reachable = TRUE
    /\ ctor_reachable = TRUE
    /\ foreign_keys \in BOOLEAN
    /\ InitStores

NextTx ==
    \/ connect
    \/ pragmas
    \/ select
    \/ write_row
    \/ write_tags
    \/ commit
    \/ rollback
    \/ close
    \/ session
    \/ run
    \/ session_close

SpecTx == InitTx /\ [][NextTx]_vars

\* C24: when an operation has exited, by return or by exception, the
\* connection or session it opened is closed; in the relational store the
\* transaction was committed exactly when the body ended without an
\* exception and rolled back otherwise, and an operation that raised has
\* changed no row.
C24_ConnectionReleasedAndTransactionEnded ==
    conn.pc = "idle" =>
        /\ ~conn.open
        /\ (backend = "sqlite" /\ conn.op # "none") =>
              /\ (conn.end = "committed") = (conn.exc = "none")
              /\ (conn.end = "rolled_back") = (conn.exc # "none")
              /\ conn.exc = "none" => sqlDb = conn.work
              /\ conn.exc # "none" => sqlDb = conn.pre

\* An operation has raised after its body had changed rows, and has exited.
C24_Witness ==
    /\ backend = "sqlite"
    /\ conn.pc = "idle"
    /\ conn.op \in {"save", "update"}
    /\ conn.wrote
    /\ conn.exc = "RepositoryError"
    /\ sqlDb # EmptySqlDb


\* No key of the index dictionary maps to an empty id list.
NoEmptyList(idx) == \A k \in DOMAIN idx : idx[k] # <<>>

\* C25: in every reachable state of a file-backed store no index file
\* (by_type, by_provider, by_tags of assets; by_source, by_target, by_type
\* of relationships) maps a key to an empty id list: a key whose last id
\* delete or update removes is removed with it.
C25_NoEmptyIndexEntry ==
    /\ NoEmptyList(fileRepo.by_type)
    /\ NoEmptyList(fileRepo.by_provider)
    /\ NoEmptyList(fileRepo.by_tags)
    /\ NoEmptyList(relRepo.by_source)
    /\ NoEmptyList(relRepo.by_target)
    /\ NoEmptyList(relRepo.by_type)

\* A delete has returned True from a file-backed store and has left it
\* with no entity and no index key.
C25_Witness ==
    /\ backend = "file"
    /\ last.op \in {"delete", "delete_relationship"}
    /\ last.ret = "True"
    /\ fileRepo = EmptyFileRepo
    /\ relRepo = EmptyRelRepo


\* C26: update of a stored asset in the file-backed store rewrites only the
\* indices whose dimension changed: changing only the tags leaves by_type
\* and by_provider as they were (keys and id lists, in order), changing
\* only asset_type leaves by_provider and by_tags, and changing none of
\* the three leaves every index.
C26_UpdateRewritesOnlyChangedIndices ==
    (backend = "file" /\ kind = "asset") =>
        \A asset \in CallAssets :
            asset.asset_id \in DOMAIN fileRepo.files =>
                LET old == from_dict(fileRepo.files[asset.asset_id])
                    same_type == old.asset_type = asset.asset_type
                    same_provider == old.provider = asset.provider
                    same_tags == old.tags = asset.tags
                    Kept(out) ==
                        /\ (same_type /\ same_provider /\ ~same_tags) =>
                              /\ out.repo.by_type = fileRepo.by_type
                              /\ out.repo.by_provider = fileRepo.by_provider
                        /\ (~same_type /\ same_provider /\ same_tags) =>
                              /\ out.repo.by_provider = fileRepo.by_provider
                              /\ out.repo.by_tags = fileRepo.by_tags
                        /\ (same_type /\ same_provider /\ same_tags) =>
                              /\ out.repo.by_type = fileRepo.by_type
                              /\ out.repo.by_provider = fileRepo.by_provider
                              /\ out.repo.by_tags = fileRepo.by_tags
                IN  Kept(FileUpdate(fileRepo, asset))


(***************************************************************************)
(* get_graph_statistics of the three relationship repositories             *)
(***************************************************************************)
\* sum(f[k] for k in S)
RECURSIVE SumOver(_, _)
SumOver(f, S) ==
    IF S = {} THEN 0
    ELSE LET k == CHOOSE x \in S : TRUE IN f[k] + SumOver(f, S \ {k})

\* FileBasedRelationshipRepository.get_graph_statistics: computed from the
\* three index files.
FileRelGetGraphStatistics(repo) ==
    [exc |-> "none",
     ret |-> [node_count |->
                 Cardinality(DOMAIN repo.by_source \cup DOMAIN repo.by_target),
              edge_count |->
                 SumOver([k \in DOMAIN repo.by_source |-> Len(repo.by_source[k])],
                         DOMAIN repo.by_source),
              by_type |-> [k \in DOMAIN repo.by_type |-> Len(repo.by_type[k])]]]

\* SQLiteRelationshipRepository.get_graph_statistics: COUNT(*), COUNT of
\* the UNION of source_id and target_id, GROUP BY relationship_type.
SqlRelGetGraphStatistics(db) ==
    LET rows == db.relationships IN
    [exc |-> "none",
     ret |-> [node_count |->
                 Cardinality({rows[x].source_id : x \in DOMAIN rows}
                             \cup {rows[x].target_id : x \in DOMAIN rows}),
              edge_count |-> Cardinality(DOMAIN rows),
              by_type |->
                 [ty \in {rows[x].relationship_type : x \in DOMAIN rows} |->
                     Cardinality({x \in DOMAIN rows :
                                      rows[x].relationship_type = ty})]]]

\* MemgraphRelationshipRepository.get_graph_statistics.  MATCH (a:Asset)
\* OPTIONAL MATCH (a)-[r:RELATIONSHIP]-() gives one row per Asset node and
\* incident edge (one row with a null r for a node without edges);
\* node_count is COUNT(DISTINCT a), edge_count is COUNT(r) / 2.
GraphRelGetGraphStatistics(g, fb) ==
    IF use_fallback THEN FileRelGetGraphStatistics(fb)
    ELSE IF ~reachable
    THEN IF has_fallback THEN FileRelGetGraphStatistics(fb)
         ELSE [exc |-> "RepositoryError", ret |-> None]
    ELSE LET incident(a) ==
                 Cardinality({i \in DOMAIN g.edges :
                                  \/ g.edges[i].source_id = a
                                  \/ g.edges[i].target_id = a})
         IN [exc |-> "none",
             ret |-> [node_count |-> Cardinality(DOMAIN g.nodes),
                      edge_count |->
                         SumOver([a \in DOMAIN g.nodes |-> incident(a)],
                                 DOMAIN g.nodes) \div 2,
                      by_type |->
                         [ty \in {g.edges[i].relationship_type :
                                      i \in DOMAIN g.edges} |->
                             Cardinality({i \in DOMAIN g.edges :
                                  g.edges[i].relationship_type = ty})]]]

\* get_graph_statistics() of the configured backend.
get_graph_statistics_out ==
    CASE backend = "file" -> FileRelGetGraphStatistics(relRepo)
      [] backend = "sqlite" -> SqlRelGetGraphStatistics(sqlDb)
      [] OTHER -> GraphRelGetGraphStatistics(graphDb, relRepo)

\* The (source_id, target_id) pairs of the stored relationships, one per
\* stored relationship, of the store that answers the calls.
StoredEnds ==
    CASE backend = "file" \/ use_fallback ->
            [x \in DOMAIN relRepo.files |->
                <<relRepo.files[x].source_id, relRepo.files[x].target_id>>]
      [] backend = "sqlite" ->
            [x \in DOMAIN sqlDb.relationships |->
                <<sqlDb.relationships[x].source_id,
                  sqlDb.relationships[x].target_id>>]
      [] OTHER ->
            [i \in DOMAIN graphDb.edges |->
                <<graphDb.edges[i].source_id, graphDb.edges[i].target_id>>]

\* C27: in every relationship backend get_graph_statistics reports as
\* node_count the number of distinct asset ids that are source or target
\* of a stored relationship, as edge_count the number of stored
\* relationships, and a by_type histogram that sums to edge_count.
C27_GraphStatisticsCounts ==
    kind = "relationship" =>
        LET Counts(out, ends) ==
                /\ out.exc = "none"
                /\ out.ret.node_count =
                      Cardinality({ends[x][1] : x \in DOMAIN ends}
                                  \cup {ends[x][2] : x \in DOMAIN ends})
                /\ out.ret.edge_count = Cardinality(DOMAIN ends)
                /\ SumOver(out.ret.by_type, DOMAIN out.ret.by_type)
                      = out.ret.edge_count
        IN  Counts(get_graph_statistics_out, StoredEnds)


\* A relationship with this id is stored in the store that answers the
\* calls.
RelStored(relationship_id) ==
    CASE backend = "file" \/ use_fallback ->
            relationship_id \in DOMAIN relRepo.files
      [] backend = "sqlite" -> relationship_id \in DOMAIN sqlDb.relationships
      [] OTHER -> GraphEdgesOfId(graphDb, relationship_id) # {}

\* C28: in every backend update of an asset (or relationship) whose id is
\* not stored raises AssetNotFoundError (RelationshipNotFoundError) to the
\* caller and creates no entity and no index entry.
C28_UpdateOfAbsentRaisesNotFound ==
    /\ kind = "asset" =>
          \A asset \in CallAssets :
              ~AssetExists(Now, asset.asset_id) =>
                  LET NotFound(out) ==
                          /\ out.exc = "AssetNotFoundError"
                          /\ out.file = fileRepo
                          /\ out.sql = sqlDb
                          /\ out.graph = graphDb
                  IN  NotFound(UpdateOut(asset))
    /\ kind = "relationship" =>
          \A r \in CallRelationships :
              ~RelStored(r.relationship_id) =>
                  LET NotFound(out) ==
                          /\ out.exc = "RelationshipNotFoundError"
                          /\ out.rel = relRepo
                          /\ out.sql = sqlDb
                          /\ out.graph = graphDb
                  IN  NotFound(RelUpdateOut(r))


\* C29: in the file and relational backends delete(id) returns True
\* exactly when an entity with that id was stored and False otherwise; a
\* delete of an absent id changes nothing, and a second delete(id) right
\* after the first returns False and leaves the store as the first left it.
C29_DeleteReturnsWhetherStored ==
    /\ (backend = "file" /\ kind = "asset") =>
          \A id \in AssetIds :
              LET First(o) ==
                      /\ o.exc = "none"
                      /\ o.ret = (id \in DOMAIN fileRepo.files)
                      /\ id \notin DOMAIN fileRepo.files => o.repo = fileRepo
                      /\ LET Second(p) ==
                                 p.exc = "none" /\ ~p.ret /\ p.repo = o.repo
                         IN  Second(FileDelete(o.repo, id))
              IN  First(FileDelete(fileRepo, id))
    /\ (backend = "file" /\ kind = "relationship") =>
          \A id \in RelationshipIds :
              LET First(o) ==
                      /\ o.exc = "none"
                      /\ o.ret = (id \in DOMAIN relRepo.files)
                      /\ id \notin DOMAIN relRepo.files => o.repo = relRepo
                      /\ LET Second(p) ==
                                 p.exc = "none" /\ ~p.ret /\ p.repo = o.repo
                         IN  Second(FileRelDelete(o.repo, id))
              IN  First(FileRelDelete(relRepo, id))
    /\ backend = "sqlite" =>
          /\ \A id \in AssetIds :
                LET First(o) ==
                        /\ o.exc = "none"
                        /\ o.ret = (id \in DOMAIN sqlDb.assets)
                        /\ id \notin DOMAIN sqlDb.assets => o.db = sqlDb
                        /\ LET Second(p) ==
                                   p.exc = "none" /\ ~p.ret /\ p.db = o.db
                           IN  Second(SqlDelete(o.db, id))
                IN  First(SqlDelete(sqlDb, id))
          /\ \A id \in RelationshipIds :
                LET First(o) ==
                        /\ o.exc = "none"
                        /\ o.ret = (id \in DOMAIN sqlDb.relationships)
                        /\ id \notin DOMAIN sqlDb.relationships => o.db = sqlDb
                        /\ LET Second(p) ==
                                   p.exc = "none" /\ ~p.ret /\ p.db = o.db
                           IN  Second(SqlRelDelete(o.db, id))
                IN  First(SqlRelDelete(sqlDb, id))


(***************************************************************************)
(* find_all(filters, limit, offset).  An Optional[int] argument is <<>>    *)
(* for None and <<n>> for the integer n.  `order` lists the stored ids in  *)
(* the order the backend enumerates them: the directory listing of the     *)
(* file store, the rows of equal created_at under ORDER BY created_at DESC *)
(* in SQLite and Memgraph.                                                 *)
(***************************************************************************)
MaxPage == 2
PageArgs == {<<>>} \cup {<<n>> : n \in 0..MaxPage}
PageFilters ==
    {EmptyMap} \cup {[k \in {"asset_type"} |-> ty] : ty \in AssetTypes}

\* `if limit:` / `if offset:` -- None and 0 are false.
Truthy(arg) == arg # <<>> /\ arg[1] # 0

\* The enumeration orders of a set of ids.
Orders(ids) ==
    {s \in [1..Cardinality(ids) -> ids] : Range(s) = ids}

Skip(s, n) == SubSeq(s, n + 1, Len(s))
Take(s, n) == SubSeq(s, 1, IF n < Len(s) THEN n ELSE Len(s))

\* The loop of FileBasedAssetRepository.find_all over the entity files:
\* `count` counts the files passed, whether they match or not.
RECURSIVE FileFindAllLoop(_, _, _, _, _, _, _)
FileFindAllLoop(repo, order, filters, limit, offset, count, assets) ==
    IF order = <<>> THEN assets
    ELSE IF Truthy(offset) /\ count < offset[1]
    THEN FileFindAllLoop(repo, Tail(order), filters, limit, offset,
                         count + 1, assets)
    ELSE IF Truthy(limit) /\ Len(assets) >= limit[1] THEN assets
    ELSE FileFindAllLoop(repo, Tail(order), filters, limit, offset, count + 1,
             IF matches_filters(from_dict(repo.files[Head(order)]), filters)
             THEN Append(assets, Head(order)) ELSE assets)

\* FileBasedAssetRepository.find_all, as the ids of the returned assets.
FileFindAllPage(repo, order, filters, limit, offset) ==
    [exc |-> "none",
     ret |-> FileFindAllLoop(repo, order, filters, limit, offset, 0, <<>>)]

\* SQLiteAssetRepository.find_all: "... ORDER BY created_at DESC", then
\* " LIMIT ?" if limit, then " OFFSET ?" if offset.  SQLite accepts OFFSET
\* only after LIMIT: without it the statement is a syntax error
\* (sqlite3.OperationalError, raised as RepositoryError).
SqlFindAllPage(db, order, filters, limit, offset) ==
    IF ~Truthy(limit) /\ Truthy(offset)
    THEN [exc |-> "RepositoryError", ret |-> <<>>]
    ELSE LET Where(id) == SqlFindAllWhere(db.assets[id], filters)
             Page(rows) ==
                 IF ~Truthy(limit) THEN rows
                 ELSE IF Truthy(offset) THEN Take(Skip(rows, offset[1]), limit[1])
                 ELSE Take(rows, limit[1])
         IN [exc |-> "none", ret |-> Page(SelectSeq(order, Where))]

\* MemgraphAssetRepository.find_all: RETURN a ORDER BY a.created_at DESC,
\* SKIP {offset} if offset, LIMIT {limit} if limit.
GraphFindAllPage(g, fb, order, filters, limit, offset) ==
    IF use_fallback THEN FileFindAllPage(fb, order, filters, limit, offset)
    ELSE IF ~reachable
    THEN IF has_fallback
         THEN FileFindAllPage(fb, order, filters, limit, offset)
         ELSE [exc |-> "RepositoryError", ret |-> <<>>]
    ELSE LET Where(id) == GraphFindAllWhere(g.nodes[id], filters)
             Skipped(rows) ==
                 IF Truthy(offset) THEN Skip(rows, offset[1]) ELSE rows
             Page(rows) ==
                 IF Truthy(limit) THEN Take(Skipped(rows), limit[1])
                 ELSE Skipped(rows)
         IN [exc |-> "none", ret |-> Page(SelectSeq(order, Where))]

\* The ids of the stored assets of the store that answers the calls, and
\* the stored asset of an id.
StoredAssetIds ==
    CASE backend = "file" \/ use_fallback -> DOMAIN fileRepo.files
      [] backend = "sqlite" -> DOMAIN sqlDb.assets
      [] OTHER -> DOMAIN graphDb.nodes

\* find_all(filters, limit, offset) of the configured backend.
find_all_out(order, filters, limit, offset) ==
    CASE backend = "file" ->
            FileFindAllPage(fileRepo, order, filters, limit, offset)
      [] backend = "sqlite" ->
            SqlFindAllPage(sqlDb, order, filters, limit, offset)
      [] OTHER ->
            GraphFindAllPage(graphDb, fileRepo, order, filters, limit, offset)

\* C30: in every asset backend find_all(filters, limit, offset) returns
\* only assets that match the filters and, with m matching assets stored,
\* min(limit, max(0, m - offset)) of them (max(0, m - offset) when limit is
\* absent), also when offset is given without limit.
C30_FindAllPages ==
    kind = "asset" =>
        \A filters \in PageFilters, limit \in PageArgs, offset \in PageArgs :
            \A order \in Orders(StoredAssetIds) :
                LET Matches(id) == matches_filters(AssetFindById(Now, id), filters)
                    m == Cardinality({id \in StoredAssetIds : Matches(id)})
                    off == IF offset = <<>> THEN 0 ELSE offset[1]
                    rest == IF m > off THEN m - off ELSE 0
                    Page(out) ==
                        /\ out.exc = "none"
                        /\ \A i \in DOMAIN out.ret : Matches(out.ret[i])
                        /\ Len(out.ret) =
                              IF limit = <<>> \/ limit[1] >= rest THEN rest
                              ELSE limit[1]
                IN  Page(find_all_out(order, filters, limit, offset))


\* SQLiteAssetRepository.find_by_tags as the caller sees it: with no tag the
\* WHERE clause is empty ("WHERE  GROUP BY ..."), which SQLite rejects.
SqlFindByTagsCall(db, tags) ==
    IF DOMAIN tags = {}
    THEN [exc |-> "RepositoryError", ret |-> {}]
    ELSE [exc |-> "none", ret |-> SqlFindByTags(db, tags)]

\* find_by_tags(tags) of the configured backend, as the ids returned.
find_by_tags_out(tags) ==
    CASE backend = "file" ->
            [exc |-> "none", ret |-> FileFindByTags(fileRepo, tags)]
      [] backend = "sqlite" -> SqlFindByTagsCall(sqlDb, tags)
      [] OTHER ->
            [exc |-> "none", ret |-> GraphFindByTags(graphDb, fileRepo, tags)]

\* C31: find_by_tags(tags) returns exactly the stored assets whose tags
\* hold every key/value pair of the argument, the empty tag map included,
\* in the file, relational and graph backends alike (so the three return
\* the same ids for the same stored assets).
C31_FindByTagsExact ==
    kind = "asset" =>
        \A tags \in TagMaps :
            LET Holds(id) ==
                    LET stored == AssetFindById(Now, id).tags IN
                    \A k \in DOMAIN tags :
                        k \in DOMAIN stored /\ stored[k] = tags[k]
                Exact(out) ==
                    /\ out.exc = "none"
                    /\ out.ret = {id \in StoredAssetIds : Holds(id)}
            IN  Exact(find_by_tags_out(tags))


(***************************************************************************)
(* FileBasedAssetRepository.search (file_repository.py).  Texts are the    *)
(* strings the model's assets carry; `in` is substring containment.        *)
(***************************************************************************)
\* str.lower() on the model's strings.
lower(s) == IF s = "X" THEN "x" ELSE s

\* str(value) of a loaded property value: a str is itself, a list of one
\* string prints as ['x'].
PyStr(val) == IF val.py = "str" THEN val.v ELSE "['" \o val.v \o "']"

\* The non-empty substrings of a text.
Substrings(text) ==
    CASE text = "p=q" -> {"p", "=", "q", "p=", "=q", "p=q"}
      [] text = "e=p" -> {"e", "=", "p", "e=", "=p", "e=p"}
      [] text = "['x']" -> {"[", "'", "x", "]", "['", "'x", "x'", "']",
                            "['x", "'x'", "x']", "['x'", "'x']", "['x']"}
      [] OTHER -> {text}

Contains(text, query) == query \in Substrings(text)

SearchQueries == {"x", "X", "n", "q", "z"}

\* The assets saved before a search: plain (name "n"), named "X", with a
\* property value "x", with a tag value "x", with both, or with tag e="p=q".
SearchAssets ==
    UNION { { BaseAsset(id),
              [BaseAsset(id) EXCEPT !.name = "X"],
              [BaseAsset(id) EXCEPT !.properties =
                  [k \in {"k"} |-> [py |-> "str", v |-> "x"]]],
              [BaseAsset(id) EXCEPT !.tags = [k \in {"e"} |-> "x"]],
              [BaseAsset(id) EXCEPT
                  !.properties = [k \in {"k"} |-> [py |-> "tuple", v |-> "x"]],
                  !.tags = [k \in {"e"} |-> "x"]],
              [BaseAsset(id) EXCEPT !.tags = [k \in {"e"} |-> "p=q"]] }
            : id \in AssetIds }

\* The three tests of the loop body, on one asset.
NameMatches(asset, query_lower) == Contains(lower(asset.name), query_lower)
PropertyMatches(asset, query_lower) ==
    \E key \in DOMAIN asset.properties :
        Contains(lower(PyStr(asset.properties[key])), query_lower)
TagMatches(asset, query_lower) ==
    \E key \in DOMAIN asset.tags :
        \/ Contains(lower(key), query_lower)
        \/ Contains(lower(asset.tags[key]), query_lower)

\* `for asset in self.find_all():` -- a name match appends and continues; a
\* property match appends and leaves the properties loop only, so the tags
\* loop runs for the same asset; each append is followed by the limit test.
RECURSIVE FileSearchLoop(_, _, _, _, _)
FileSearchLoop(repo, order, query_lower, limit, results) ==
    IF order = <<>> THEN results
    ELSE LET asset == from_dict(repo.files[Head(order)])
             Full(res) == Truthy(limit) /\ Len(res) >= limit[1]
             Tags(res) ==
                 IF TagMatches(asset, query_lower)
                 THEN IF Full(Append(res, Head(order)))
                      THEN Append(res, Head(order))
                      ELSE FileSearchLoop(repo, Tail(order), query_lower, limit,
                                          Append(res, Head(order)))
                 ELSE FileSearchLoop(repo, Tail(order), query_lower, limit, res)
         IN IF NameMatches(asset, query_lower)
            THEN IF Full(Append(results, Head(order)))
                 THEN Append(results, Head(order))
                 ELSE FileSearchLoop(repo, Tail(order), query_lower, limit,
                                     Append(results, Head(order)))
            ELSE IF PropertyMatches(asset, query_lower)
            THEN IF Full(Append(results, Head(order)))
                 THEN Append(results, Head(order))
                 ELSE Tags(Append(results, Head(order)))
            ELSE Tags(results)

\* search(query, limit), as the ids of the returned assets in order.
search_out(order, query, limit) ==
    FileSearchLoop(fileRepo, order, lower(query), limit, <<>>)

search_save ==
    /\ backend = "file"
    /\ \E asset \in SearchAssets : Called("save", FromFile(FileSave(fileRepo, asset)))

search_delete ==
    /\ backend = "file"
    /\ \E asset_id \in AssetIds :
          Called("delete", FromFile(FileDelete(fileRepo, asset_id)))

InitSearch ==
    /\ backend = "file"
    /\ kind = "asset"
    /\ has_fallback = FALSE
    /\ available = TRUE
    /\ reachable = TRUE
    /\ ctor_reachable = TRUE
    /\ foreign_keys = TRUE
    /\ InitStores

NextSearch == search_save \/ search_delete

SpecSearch == InitSearch /\ [][NextSearch]_vars

\* C32: search(query, limit) of the file-backed asset store returns, when
\* limit is absent, exactly the stored assets whose name, some property
\* value, or some tag key or value contains the query case-insensitively;
\* it returns each asset at most once, and with a limit at most limit assets.
C32_SearchExactOnce ==
    \A query \in SearchQueries : \A limit \in PageArgs :
        \A order \in Orders(DOMAIN fileRepo.files) :
            LET Matches(id) ==
                    LET asset == from_dict(fileRepo.files[id]) IN
                    \/ NameMatches(asset, lower(query))
                    \/ PropertyMatches(asset, lower(query))
                    \/ TagMatches(asset, lower(query))
                Good(res) ==
                    /\ limit = <<>> =>
                          Range(res) = {id \in DOMAIN fileRepo.files : Matches(id)}
                    /\ \A i, j \in 1..Len(res) : res[i] = res[j] => i = j
                    /\ limit # <<>> => Len(res) <= limit[1]
            IN  Good(search_out(order, query, limit))


(***************************************************************************)
(* Relationship.validate and relationship objects whose fields were        *)
(* assigned after construction (a dataclass validates in __post_init__     *)
(* only).                                                                  *)
(***************************************************************************)
\* Relationship.validate(): the self-relationship and type checks.
relationship_validate(r) ==
    /\ r.source_id # r.target_id
    /\ r.relationship_type \in RelationshipTypes

\* Objects built valid and then given source_id = target_id.
MutatedRelationships ==
    { Relationship("r1", "a1", "a1", "depends_on"),
      Relationship("r2", "a2", "a2", "uses") }

\* Relationship.from_dict ends in cls(**data), which validates.
FileHolds(repo, id) ==
    id \in DOMAIN repo.files
    /\ ~relationship_validate(relationship_from_dict(repo.files[id]))

\* find_by_id(relationship_id): a ValueError of from_dict is raised as
\* RepositoryError.
FileRelFindByIdCall(repo, relationship_id) ==
    IF FileHolds(repo, relationship_id)
    THEN [exc |-> "RepositoryError", ret |-> None]
    ELSE [exc |-> "none", ret |-> FileRelFindById(repo, relationship_id)]

\* save(relationship): _find_exact_relationship loads every relationship
\* listed under the source and fails on the first it cannot load.
FileRelSaveCall(repo, r) ==
    IF /\ r.relationship_id \notin DOMAIN repo.files
       /\ \E id \in Range(IndexGet(repo.by_source, r.source_id)) :
              FileHolds(repo, id)
    THEN [repo |-> repo, exc |-> "RepositoryError", ret |-> None]
    ELSE FileRelSave(repo, r)

\* update(relationship): the old relationship is loaded with from_dict.
FileRelUpdateCall(repo, r) ==
    IF FileHolds(repo, r.relationship_id)
    THEN [repo |-> repo, exc |-> "RepositoryError", ret |-> None]
    ELSE FileRelUpdate(repo, r)

mutated_save ==
    /\ kind = "relationship"
    /\ \E r \in Relationships \cup MutatedRelationships :
          Called("save_relationship", FromFileRel(FileRelSaveCall(relRepo, r)))

mutated_update ==
    /\ kind = "relationship"
    /\ \E r \in Relationships \cup MutatedRelationships :
          Called("update_relationship",
                 FromFileRel(FileRelUpdateCall(relRepo, r)))

InitMutated ==
    /\ backend = "file"
    /\ kind = "relationship"
    /\ has_fallback = FALSE
    /\ available = TRUE
    /\ reachable = TRUE
    /\ ctor_reachable = TRUE
    /\ foreign_keys = TRUE
    /\ InitStores

NextMutated == mutated_save \/ mutated_update

SpecMutated == InitMutated /\ [][NextMutated]_vars

\* C33: no relationship with source_id equal to target_id is ever stored:
\* after any sequence of save and update calls, also with objects whose
\* fields were changed after construction, every stored relationship has
\* source_id different from target_id and is read back by find_by_id.
C33_NoSelfRelationshipStored ==
    \A id \in DOMAIN relRepo.files :
        /\ relRepo.files[id].source_id # relRepo.files[id].target_id
        /\ LET Read(o) == o.exc = "none" /\ o.ret # None
           IN  Read(FileRelFindByIdCall(relRepo, id))


(***************************************************************************)
(* Asset.calculate_risk_score (src/src/domain/models/asset.py).  The       *)
(* subject is an asset seen through the fields the calculation reads:      *)
(* its age in whole days, its tags, compliance_status, health and the      *)
(* length of its relationships list.                                       *)
(***************************************************************************)
RiskAges == {0, 364, 365, 366}
RiskTags == {EmptyMap, [k \in {"e"} |-> "x"]}
\* "other" stands for any string that is not a key of the score table.
RiskCompliance == {"compliant", "non_compliant", "unknown", "other"}
RiskHealth == {"healthy", "degraded", "unhealthy", "unknown", "other"}
RiskRelationships == {0, 10, 11}

\* compliance_scores.get(self.compliance_status, 20)
compliance_scores(status) ==
    CASE status = "compliant" -> 0
      [] status = "non_compliant" -> 30
      [] status = "unknown" -> 20
      [] OTHER -> 20

\* health_scores.get(self.health, 10)
health_scores(health) ==
    CASE health = "healthy" -> 0
      [] health = "degraded" -> 15
      [] health = "unhealthy" -> 25
      [] health = "unknown" -> 10
      [] OTHER -> 10

min(a, b) == IF a <= b THEN a ELSE b
max(a, b) == IF a >= b THEN a ELSE b

\* The score calculate_risk_score computes for an asset.
RiskScore(a) ==
    min(100, max(0,
        (IF a.age_days > 365 THEN 10 ELSE 0)
        + (IF a.tags = EmptyMap THEN 15 ELSE 0)
        + compliance_scores(a.compliance_status)
        + health_scores(a.health)
        + (IF a.relationships > 10 THEN 10 ELSE 0)))

\* asset.calculate_risk_score(): stores the score and returns it.
calculate_risk_score ==
    /\ subject.of = "asset"
    /\ subject.ret = <<>>
    /\ subject' = [subject EXCEPT !.risk_score = RiskScore(subject),
                                  !.ret = <<RiskScore(subject)>>]
    /\ UNCHANGED <<backend, kind, has_fallback, available, fileRepo, relRepo,
                   sqlDb, graphDb, raised, last, threads, lock, calls,
                   writeVars, endpointVars, conn_failed, sqliteVars>>

\* An asset as constructed (risk_score 0.0, compliance_status "unknown")
\* whose fields were then assigned, before the call.
InitRisk ==
    /\ backend = "file"
    /\ kind = "asset"
    /\ has_fallback = FALSE
    /\ available = TRUE
    /\ reachable = TRUE
    /\ ctor_reachable = TRUE
    /\ foreign_keys = TRUE
    /\ InitRepositories
    /\ \E age \in RiskAges, tags \in RiskTags, c \in RiskCompliance,
          h \in RiskHealth, n \in RiskRelationships :
          subject = [of |-> "asset", age_days |-> age, tags |-> tags,
                     compliance_status |-> c, health |-> h,
                     relationships |-> n, risk_score |-> 0, ret |-> <<>>]

NextRisk == calculate_risk_score

SpecRisk == InitRisk /\ [][NextRisk]_vars

\* C34: calculate_risk_score returns 0 for an asset created less than 365
\* days ago, with at least one tag, health "healthy", the default
\* compliance_status and at most 10 relationships; for every asset the
\* returned score lies in [0, 100] and is stored in risk_score.
C34_RiskScoreOfCleanAsset ==
    (subject.of = "asset" /\ subject.ret # <<>>) =>
        /\ ( /\ subject.age_days < 365
             /\ subject.tags # EmptyMap
             /\ subject.health = "healthy"
             /\ subject.compliance_status = "unknown"
             /\ subject.relationships <= 10 )
           => subject.ret[1] = 0
        /\ subject.ret[1] \in 0..100
        /\ subject.risk_score = subject.ret[1]



(***************************************************************************)
(* FileBasedRelationshipRepository over three assets, so that a            *)
(* delete_by_asset leaves relationships of other assets behind.            *)
(***************************************************************************)
FrameAssetIds == AssetIds \cup {"a3"}

FrameRelationships ==
    {Relationship(id, e[1], e[2], "depends_on") :
        id \in RelationshipIds,
        e \in {p \in FrameAssetIds \X FrameAssetIds : p[1] # p[2]}}
    \cup {Relationship("r2", "a2", "a3", "uses")}

frame_save ==
    /\ kind = "relationship"
    /\ \E r \in FrameRelationships :
          Called("save_relationship", FromFileRel(FileRelSave(relRepo, r)))

frame_update ==
    /\ kind = "relationship"
    /\ \E r \in FrameRelationships :
          Called("update_relationship", FromFileRel(FileRelUpdate(relRepo, r)))

frame_delete ==
    /\ kind = "relationship"
    /\ \E id \in RelationshipIds :
          Called("delete_relationship", FromFileRel(FileRelDelete(relRepo, id)))

frame_delete_by_asset ==
    /\ kind = "relationship"
    /\ \E asset_id \in FrameAssetIds :
          Called("delete_by_asset",
                 FromFileRel(FileRelDeleteByAsset(relRepo, asset_id)))

NextFrame ==
    \/ frame_save
    \/ frame_update
    \/ frame_delete
    \/ frame_delete_by_asset

SpecFrame == InitMutated /\ [][NextFrame]_vars

\* C35: file-backed relationship store: after delete_by_asset(a) returns n,
\* find_by_asset(a) is empty, n is the number of relationships that had a as
\* source or target before the call, and every relationship not involving a
\* is still stored and still listed in by_source, by_target and by_type.
C35_DeleteByAssetFrame ==
    \A a \in FrameAssetIds :
        LET Involves(id) == \/ relRepo.files[id].source_id = a
                            \/ relRepo.files[id].target_id = a
            Listed(repo, id) ==
                /\ id \in Range(IndexGet(repo.by_source,
                                         relRepo.files[id].source_id))
                /\ id \in Range(IndexGet(repo.by_target,
                                         relRepo.files[id].target_id))
                /\ id \in Range(IndexGet(repo.by_type,
                                         relRepo.files[id].relationship_type))
            Kept(out) ==
                out.exc = "none" =>
                    /\ FileRelFindByAsset(out.repo, a) = <<>>
                    /\ out.ret = Cardinality({id \in DOMAIN relRepo.files :
                                                 Involves(id)})
                    /\ \A id \in DOMAIN relRepo.files :
                          ~Involves(id) =>
                              /\ id \in DOMAIN out.repo.files
                              /\ out.repo.files[id] = relRepo.files[id]
                              /\ Listed(out.repo, id)
        IN  Kept(FileRelDeleteByAsset(relRepo, a))


\* A delete_by_asset has returned 1 and left a relationship of other assets
\* stored.
C35_Witness ==
    /\ last.op = "delete_by_asset"
    /\ last.exc = "none"
    /\ last.ret = "1"
    /\ DOMAIN relRepo.files # {}


(***************************************************************************)
(* FileBasedAssetRepository._update_index called from two threads, each    *)
(* with assets of its own id, one statement per step: entering the `with   *)
(* self._lock:` block, _read_json of an index file into a local            *)
(* dictionary, and the change of that dictionary with _write_json.  A read *)
(* or a write can raise (OSError, JSONDecodeError), and list.remove raises *)
(* ValueError; the `with` statement releases the lock on the way out.      *)
(* FileBasedRelationshipRepository._update_index has the same shape with   *)
(* the source, target and type indices.                                    *)
(***************************************************************************)
\* Calls of _update_index the two threads make in one behaviour.
MaxIndexCalls == 4

IndexIdOf(t) == IF t = "t1" THEN "a1" ELSE "a2"

IndexAssets(t) ==
    { BaseAsset(IndexIdOf(t)),
      [BaseAsset(IndexIdOf(t)) EXCEPT !.asset_type = "storage",
                                      !.tags = [k \in {"e"} |-> "p=q"]] }

InBlock == {"read_type", "write_type", "read_provider", "write_provider",
            "read_tags", "write_tags"}

\* A lock that any thread may take at any time.
Unlocked(l) == TRUE

\* threading.Lock.acquire() returns when the lock is free.
Acquirable(l) == l = "free"

IndexFrame ==
    UNCHANGED <<backend, kind, has_fallback, available, relRepo, sqlDb,
                graphDb, raised, last, threads, writeVars,
                endpointVars, conn_failed, sqliteVars>>

\* Thread t leaves the block with an exception.
IndexRaise(t) ==
    /\ lock' = "free"
    /\ subject' = [subject EXCEPT !.pc[t] = "idle", !.done[t] = "raised",
                                  !.local[t] = EmptyMap]
    /\ UNCHANGED fileRepo

\* Thread t calls _update_index(asset, remove); a removal is made with the
\* asset the thread has indexed, when it has one.
index_enter ==
    /\ subject.of = "index"
    /\ calls < MaxIndexCalls
    /\ calls' = calls + 1
    /\ \E t \in Threads, remove \in BOOLEAN : \E a \in IndexAssets(t) :
          /\ subject.pc[t] = "idle"
          /\ subject' = [subject EXCEPT
                           !.pc[t] = "acquire",
                           !.remove[t] = remove,
                           !.asset[t] = IF remove /\ subject.done[t] = "added"
                                        THEN subject.asset[t] ELSE a]
          /\ UNCHANGED <<fileRepo, lock>>
    /\ IndexFrame

\* with self._lock:
index_acquire ==
    /\ subject.of = "index"
    /\ \E t \in Threads :
          /\ subject.pc[t] = "acquire"
          /\ Acquirable(lock)
          /\ lock' = t
          /\ subject' = [subject EXCEPT !.pc[t] = "read_type"]
          /\ UNCHANGED <<fileRepo, calls>>
    /\ IndexFrame

\* type_idx = self._read_json(self.type_index), and likewise the provider
\* and tag index.
index_read ==
    /\ subject.of = "index"
    /\ \E t \in Threads, fails \in BOOLEAN :
          /\ subject.pc[t] \in {"read_type", "read_provider", "read_tags"}
          /\ IF fails THEN IndexRaise(t)
             ELSE /\ subject' =
                       [subject EXCEPT
                          !.local[t] =
                              CASE subject.pc[t] = "read_type" -> fileRepo.by_type
                                [] subject.pc[t] = "read_provider" ->
                                       fileRepo.by_provider
                                [] OTHER -> fileRepo.by_tags,
                          !.pc[t] =
                              CASE subject.pc[t] = "read_type" -> "write_type"
                                [] subject.pc[t] = "read_provider" ->
                                       "write_provider"
                                [] OTHER -> "write_tags"]
                  /\ UNCHANGED <<fileRepo, lock>>
    /\ UNCHANGED calls
    /\ IndexFrame

\* The change of the dictionary read and self._write_json(index, dict); the
\* block ends after the tag index.
index_write ==
    /\ subject.of = "index"
    /\ \E t \in Threads, fails \in BOOLEAN :
          /\ subject.pc[t] \in {"write_type", "write_provider", "write_tags"}
          /\ LET a == subject.asset[t]
                 Written(r) ==
                     IF fails \/ ~r.ok THEN IndexRaise(t)
                     ELSE CASE subject.pc[t] = "write_type" ->
                                 /\ fileRepo' = [fileRepo EXCEPT !.by_type = r.idx]
                                 /\ subject' = [subject EXCEPT
                                                  !.local[t] = EmptyMap,
                                                  !.pc[t] = "read_provider"]
                                 /\ UNCHANGED lock
                            [] subject.pc[t] = "write_provider" ->
                                 /\ fileRepo' = [fileRepo EXCEPT
                                                   !.by_provider = r.idx]
                                 /\ subject' = [subject EXCEPT
                                                  !.local[t] = EmptyMap,
                                                  !.pc[t] = "read_tags"]
                                 /\ UNCHANGED lock
                            [] OTHER ->
                                 /\ fileRepo' = [fileRepo EXCEPT !.by_tags = r.idx]
                                 /\ subject' =
                                       [subject EXCEPT
                                          !.local[t] = EmptyMap,
                                          !.pc[t] = "idle",
                                          !.done[t] = IF subject.remove[t]
                                                      THEN "removed"
                                                      ELSE "added"]
                                 /\ lock' = "free"
             IN Written(
                  CASE subject.pc[t] = "write_type" ->
                           IndexStep(subject.local[t], a.asset_type,
                                     a.asset_id, subject.remove[t])
                    [] subject.pc[t] = "write_provider" ->
                           IndexStep(subject.local[t], a.provider,
                                     a.asset_id, subject.remove[t])
                    [] OTHER ->
                           TagLoop(subject.local[t], a.tags, DOMAIN a.tags,
                                   a.asset_id, subject.remove[t]))
    /\ UNCHANGED calls
    /\ IndexFrame

InitIndex ==
    /\ backend = "file"
    /\ kind = "asset"
    /\ has_fallback = FALSE
    /\ available = TRUE
    /\ reachable = TRUE
    /\ ctor_reachable = TRUE
    /\ foreign_keys = TRUE
    /\ InitRepositories
    /\ subject = [of |-> "index",
                  pc |-> [t \in Threads |-> "idle"],
                  local |-> [t \in Threads |-> EmptyMap],
                  asset |-> [t \in Threads |-> BaseAsset(IndexIdOf(t))],
                  remove |-> [t \in Threads |-> FALSE],
                  done |-> [t \in Threads |-> "none"]]

NextIndex ==
    \/ index_enter
    \/ index_acquire
    \/ index_read
    \/ index_write

SpecIndex == InitIndex /\ [][NextIndex]_vars

\* The id is listed under every key of the asset in the three indices.
IndexListsAll(a) ==
    /\ a.asset_id \in Range(IndexGet(fileRepo.by_type, a.asset_type))
    /\ a.asset_id \in Range(IndexGet(fileRepo.by_provider, a.provider))
    /\ \A k \in DOMAIN a.tags :
          a.asset_id \in Range(IndexGet(fileRepo.by_tags, tag_str(k, a.tags[k])))

\* The id is listed under no key of the asset.
IndexListsNone(a) ==
    /\ a.asset_id \notin Range(IndexGet(fileRepo.by_type, a.asset_type))
    /\ a.asset_id \notin Range(IndexGet(fileRepo.by_provider, a.provider))
    /\ \A k \in DOMAIN a.tags :
          a.asset_id \notin
              Range(IndexGet(fileRepo.by_tags, tag_str(k, a.tags[k])))

\* C36: at most one thread at a time is inside the read-modify-write of
\* _update_index; an index update a thread has completed stays in the index
\* files whatever the other thread does with its own id; and the lock is
\* held only by a thread inside the block, so it is free again after every
\* exit, also after a read, a write or list.remove has raised.
C36_IndexUpdatesExclusive ==
    subject.of = "index" =>
        /\ \A t, u \in Threads :
              (subject.pc[t] \in InBlock /\ subject.pc[u] \in InBlock) => t = u
        /\ \A t \in Threads :
              /\ subject.pc[t] \in InBlock <=> lock = t
              /\ (subject.pc[t] = "idle" /\ subject.done[t] = "added")
                 => IndexListsAll(subject.asset[t])
              /\ (subject.pc[t] = "idle" /\ subject.done[t] = "removed")
                 => IndexListsNone(subject.asset[t])

\* The update of t1 has raised and t1 waits for the lock again, which t2
\* holds between its read and its write of the type index.
C36_Witness ==
    /\ subject.of = "index"
    /\ subject.done["t1"] = "raised"
    /\ subject.pc["t1"] = "acquire"
    /\ lock = "t2"
    /\ subject.pc["t2"] = "write_type"


(***************************************************************************)
(* RelationshipValidator.detect_circular_dependencies                      *)
(* (src/src/domain/models/validation.py).  The subject is the argument     *)
(* pair: the asset ids in list order and the relationships in list order,  *)
(* each as <<source_id, target_id, relationship_type>>.                    *)
(***************************************************************************)
MaxRels == 3

GraphIds == {"a1", "a2", "a3"}

\* Asset lists: the ids of a set of assets in some order.
AssetLists == UNION {Orders(S) : S \in SUBSET GraphIds}

\* Relationships between listed assets; validate() rules out source = target.
RelsOver(ids) ==
    {<<s, t, ty>> : s \in ids, t \in ids, ty \in RelationshipTypes}
    \ {<<s, s, ty>> : s \in ids, ty \in RelationshipTypes}

\* graph = {asset.asset_id: [] ...}; graph[rel.source_id].append(target_id)
\* for the depends_on relationships, in list order.
Adjacency(assets, relationships) ==
    [node \in Range(assets) |->
        LET Mine(rel) == rel[3] = "depends_on" /\ rel[1] = node
            Targets(rels) == [i \in DOMAIN rels |-> rels[i][2]]
        IN Targets(SelectSeq(relationships, Mine))]

\* stack.index(neighbor)
IndexOf(stack, item) ==
    CHOOSE i \in DOMAIN stack :
        stack[i] = item /\ \A j \in DOMAIN stack : stack[j] = item => i <= j

\* The whole stack, with the path that led to the cycle.
WholeStack(stack, neighbor) == stack

\* stack[cycle_start:]
CycleFrom(stack, neighbor) ==
    SubSeq(stack, IndexOf(stack, neighbor), Len(stack))

\* find_cycle(node, visited, stack) as [cycle, visited]; cycle is <<>> for
\* None.  NeighborLoop is its `for neighbor in graph.get(node, [])`.
RECURSIVE find_cycle(_, _, _, _)
RECURSIVE NeighborLoop(_, _, _, _)
NeighborLoop(graph, neighbors, visited, stack) ==
    IF neighbors = <<>> THEN [cycle |-> <<>>, visited |-> visited]
    ELSE IF Head(neighbors) \in Range(stack)
    THEN [cycle |-> CycleFrom(stack, Head(neighbors)), visited |-> visited]
    ELSE IF Head(neighbors) \notin visited
    THEN LET Sub(r) ==
                 IF r.cycle # <<>> THEN r
                 ELSE NeighborLoop(graph, Tail(neighbors), r.visited, stack)
         IN Sub(find_cycle(graph, Head(neighbors), visited, stack))
    ELSE NeighborLoop(graph, Tail(neighbors), visited, stack)

find_cycle(graph, node, visited, stack) ==
    NeighborLoop(graph, IF node \in DOMAIN graph THEN graph[node] ELSE <<>>,
                 visited \cup {node}, Append(stack, node))

\* for asset_id in graph: if asset_id not in visited: ...
RECURSIVE CyclesLoop(_, _, _, _)
CyclesLoop(graph, order, visited, cycles) ==
    IF order = <<>> THEN cycles
    ELSE IF Head(order) \in visited
    THEN CyclesLoop(graph, Tail(order), visited, cycles)
    ELSE LET Root(r) ==
                 CyclesLoop(graph, Tail(order), r.visited,
                            IF r.cycle # <<>> THEN Append(cycles, r.cycle)
                                              ELSE cycles)
         IN Root(find_cycle(graph, Head(order), visited, <<>>))

DetectCircularDependencies(assets, relationships) ==
    CyclesLoop(Adjacency(assets, relationships), assets, {}, <<>>)

\* RelationshipValidator.detect_circular_dependencies(assets, relationships)
detect_circular_dependencies ==
    /\ subject.of = "graph"
    /\ ~subject.called
    /\ subject' = [subject EXCEPT
                     !.called = TRUE,
                     !.ret = DetectCircularDependencies(subject.assets,
                                                        subject.relationships)]
    /\ UNCHANGED <<backend, kind, has_fallback, available, fileRepo, relRepo,
                   sqlDb, graphDb, raised, last, threads, lock, calls,
                   writeVars, endpointVars, conn_failed, sqliteVars>>

InitGraph ==
    /\ backend = "file"
    /\ kind = "asset"
    /\ has_fallback = FALSE
    /\ available = TRUE
    /\ reachable = TRUE
    /\ ctor_reachable = TRUE
    /\ foreign_keys = TRUE
    /\ InitRepositories
    /\ \E assets \in AssetLists :
          \E relationships \in SeqsUpTo(RelsOver(Range(assets)), MaxRels) :
              subject = [of |-> "graph", assets |-> assets,
                         relationships |-> relationships,
                         called |-> FALSE, ret |-> <<>>]

NextGraph == detect_circular_dependencies

SpecGraph == InitGraph /\ [][NextGraph]_vars

\* The depends_on edges of the argument lists.
DependsOn ==
    {<<rel[1], rel[2]>> : rel \in {r \in Range(subject.relationships) :
                                      r[3] = "depends_on"}}

\* Some asset reaches itself along depends_on edges.
RECURSIVE ReachedFrom(_, _)
ReachedFrom(nodes, steps) ==
    IF steps = 0 THEN nodes
    ELSE ReachedFrom(nodes \cup {e[2] : e \in {d \in DependsOn : d[1] \in nodes}},
                     steps - 1)

HasCycle ==
    \E n \in Range(subject.assets) :
        n \in ReachedFrom({e[2] : e \in {d \in DependsOn : d[1] = n}},
                          Cardinality(GraphIds))

IsCycle(chain) ==
    /\ chain # <<>>
    /\ \A i \in DOMAIN chain :
          <<chain[i], chain[IF i = Len(chain) THEN 1 ELSE i + 1]>> \in DependsOn

saved_save ==
    /\ subject.of = "saved"
    /\ \E asset \in CallAssets :
          LET Told(out) ==
                  /\ Commit("save", out)
                  /\ subject' =
                        IF out.exc = "none"
                        THEN [subject EXCEPT !.ids = @ \cup {asset.asset_id}]
                        ELSE subject
          IN  Told(SaveOut(asset))

saved_delete ==
    /\ subject.of = "saved"
    /\ \E asset_id \in AssetIds :
          LET Told(out) ==
                  /\ Commit("delete", out)
                  /\ subject' =
                        IF out.exc = "none"
                        THEN [subject EXCEPT !.ids = @ \ {asset_id}]
                        ELSE subject
          IN  Told(DeleteOut(asset_id))

InitSaved ==
    /\ backend = "memgraph"
    /\ kind = "asset"
    /\ has_fallback = TRUE
    /\ ctor_reachable \in BOOLEAN
    /\ available \in BOOLEAN
    /\ reachable = ctor_reachable
    /\ foreign_keys = TRUE
    /\ InitRepositories
    /\ subject = [of |-> "saved", ids |-> {}]

NextSaved ==
    \/ connectivity
    \/ saved_save
    \/ saved_delete
    \/ find_by_id

SpecSaved == InitSaved /\ [][NextSaved]_vars

\* C38: graph-backed asset store with a file fallback: whatever the pattern
\* of connectivity loss and recovery, an asset whose save has returned and
\* that has not been deleted since is returned by find_by_id.
C38_ReadYourWrites ==
    subject.of = "saved" =>
        \A id \in subject.ids :
            LET Found(asset) == asset # None /\ asset.asset_id = id
            IN  Found(GraphFindById(graphDb, fileRepo, id))


(***************************************************************************)
(* Two threads of one process inside save() with assets of the same id,    *)
(* which is not stored when the calls begin.  The steps are those of       *)
(* SpecThreads; no further call begins.                                    *)
(***************************************************************************)
RaceAssets ==
    { BaseAsset("a1"),
      [BaseAsset("a1") EXCEPT !.asset_type = "storage"],
      [BaseAsset("a1") EXCEPT !.tags = [k \in {"e"} |-> "p=q"]] }

\* The store before the two calls: empty, or holding another asset.
RaceStores ==
    {EmptyFileRepo, FileSave(EmptyFileRepo, BaseAsset("a2")).repo}

InitRace ==
    /\ backend = "file"
    /\ kind = "asset"
    /\ has_fallback = FALSE
    /\ available = TRUE
    /\ reachable = TRUE
    /\ ctor_reachable = TRUE
    /\ foreign_keys = TRUE
    /\ subject = NoSubject
    /\ fileRepo \in RaceStores
    /\ relRepo = EmptyRelRepo
    /\ sqlDb = EmptySqlDb
    /\ graphDb = EmptyGraphDb
    /\ raised = FALSE
    /\ last = [op |-> "none", exc |-> "none", primary |-> FALSE,
               degraded |-> FALSE, ret |-> ""]
    /\ threads \in [Threads ->
                      {[op |-> "save", pc |-> "exists", id |-> a.asset_id,
                        asset |-> a, old |-> None, remove |-> FALSE,
                        pre |-> fileRepo, alone |-> FALSE] : a \in RaceAssets}]
    /\ lock = "free"
    /\ calls = MaxCalls
    /\ disk = InitDisk
    /\ writers = [t \in Threads |-> IdleWriter]
    /\ reader = IdleReader
    /\ conn_failed = FALSE
    /\ conn = NoConnection

NextRace ==
    \/ path_exists
    \/ write_json
    \/ update_type_index
    \/ update_provider_index
    \/ update_tag_index

SpecRace == InitRace /\ [][NextRace]_vars

\* C39: when two threads call save concurrently with assets of the same, not
\* yet stored, asset_id, at most one call returns successfully and the other
\* raises; the entity file and the index entries are those of one call.
C39_OneConcurrentSaveWins ==
    (calls = MaxCalls /\ AllIdle) =>
        /\ raised
        /\ \E a \in RaceAssets :
              /\ from_dict(fileRepo.files["a1"]) = a
              /\ \A ty \in DOMAIN fileRepo.by_type :
                    "a1" \in Range(fileRepo.by_type[ty]) => ty = a.asset_type
              /\ \A g \in DOMAIN fileRepo.by_tags :
                    "a1" \in Range(fileRepo.by_tags[g])
                    => g \in {tag_str(k, a.tags[k]) : k \in DOMAIN a.tags}

====
